---- MODULE Spec2Model ----
(***************************************************************************)
(* Model of the ai-pulse outbound-calling dashboard:                       *)
(*   - src/src/hooks/useCampaignExecution.ts : pacing scheduler, call      *)
(*     dispatcher (triggerCall), stop/toggle, campaign-finished watchdog   *)
(*   - src/src/hooks/useLeads.ts             : the React copy of the lead  *)
(*     rows (leads, stats) refreshed by fetchLeads                         *)
(*   - src/unnamed/part_000                  : the webhook edge function   *)
(*   - src/src/components/dashboard/LeadsTable.tsx : the per-row Call      *)
(*     button, the only caller of triggerSingleCall                        *)
(*                                                                         *)
(* React semantics kept by the model: a function created in a render sees  *)
(* the state values of that render.  The setInterval callback created by   *)
(* startExecution therefore keeps, for its whole life, the values of       *)
(* `leads` and `isCallInProgress` of the render in which the run was       *)
(* started, while `currentIndex` is a local variable shared by all firings *)
(* of that callback.  Handlers invoked by the user (toggleExecution, the   *)
(* Call button) and effects run with the state of the latest render.       *)
(***************************************************************************)
EXTENDS Integers, Sequences, FiniteSets, Bags, TLC

\* ------------------------------------------------------------------ bounds
NumLeads == 1
MaxInFlight == 2
\* The interval timers that may be left running at a time.
MaxTimers == 2

Leads == 1..NumLeads

\* --------------------------------------------------------------- constants
NULL == "null"
\* calculateCallCost: $0.99 per minute, kept in cents
MinuteRateCents == 99

VARIABLES
  db,                \* the leads table: lead id -> row
  leads,             \* useLeads: React state `leads` (rows as last fetched)
  stats,             \* useLeads: React state `stats`
  isExecuting,       \* useCampaignExecution: React state
  isCallInProgress,  \* useCampaignExecution: React state
  intervalId,        \* useCampaignExecution: React state (0 is null)
  timers,            \* live interval timers: handle -> closure of the callback
  tasks,             \* bag of triggerCall invocations suspended at an await
  requested,         \* leads for which the provider was asked to place a call
  succeeded,         \* leads for which the provider answered success
  toast,             \* the last toast shown
  contacts,          \* the leads table: lead id -> its name and phone_number
  request,           \* webhook: the request the handler was last called with
  contactId,         \* webhook: the handler's contactId after lead resolution
  response           \* webhook: the Response the handler returned

\* The state of the dashboard (useLeads, useCampaignExecution).
hookVars == <<leads, stats, isExecuting, isCallInProgress, intervalId,
              timers, tasks, requested, succeeded, toast>>

\* The state of one invocation of the webhook function, and the columns of
\* the table that only the webhook function reads.
webhookVars == <<contacts, request, contactId, response>>

vars == <<db, hookVars, webhookVars>>

\* ---------------------------------------------------------------- helpers
\* Array.prototype.filter over the lead list, which is kept in id order: the
\* ids of the set S, from id i on, in that order.
RECURSIVE FilterFrom(_, _)
FilterFrom(S, i) ==
  IF i > NumLeads THEN <<>>
  ELSE (IF i \in S THEN <<i>> ELSE <<>>) \o FilterFrom(S, i + 1)

\* The filter testing the status only.
IsEligible_IgnoresPhone(lead) == lead.status = "Pending"

IsEligible(lead) == lead.status = "Pending" /\ lead.phone_id # NULL
IsInProgress(lead) == lead.status = "In Progress"

\* ------------------------------------------------- JSON values of a payload
\* A JSON value is tagged with its JavaScript type; strings are sequences of
\* characters so that toLowerCase and includes are computed, not assumed.
JAbsent == [t |-> "absent", b |-> FALSE, n |-> 0, s |-> <<>>]
JBool(b) == [t |-> "bool", b |-> b, n |-> 0, s |-> <<>>]
JNum(n) == [t |-> "num", b |-> FALSE, n |-> n, s |-> <<>>]
JStr(s) == [t |-> "str", b |-> FALSE, n |-> 0, s |-> s]

\* JavaScript truthiness of a JSON value.
Truthy(v) ==
  CASE v.t = "absent" -> FALSE
    [] v.t = "bool" -> v.b
    [] v.t = "num" -> v.n # 0
    [] v.t = "str" -> v.s # <<>>

\* v === false
IsFalse(v) == v.t = "bool" /\ v.b = FALSE

UpperChars == <<"A", "B", "C", "D", "E", "F", "G", "H", "I", "J", "K", "L", "M",
                "N", "O", "P", "Q", "R", "S", "T", "U", "V", "W", "X", "Y", "Z">>
LowerChars == <<"a", "b", "c", "d", "e", "f", "g", "h", "i", "j", "k", "l", "m",
                "n", "o", "p", "q", "r", "s", "t", "u", "v", "w", "x", "y", "z">>

LowerChar(c) ==
  IF \E i \in 1..26 : UpperChars[i] = c
  THEN LowerChars[CHOOSE i \in 1..26 : UpperChars[i] = c]
  ELSE c

\* String.prototype.toLowerCase
toLowerCase(s) == [i \in 1..Len(s) |-> LowerChar(s[i])]

\* String.prototype.includes
includes(s, sub) ==
  \E i \in 0..(Len(s) - Len(sub)) : SubSeq(s, i + 1, i + Len(sub)) = sub

\* ------------------------------------------------------ webhook: normalizer
\* The status that also takes a call without duration for a failed one.
determineCallStatus_NoDurationFails(payload) ==
  IF IsFalse(payload.success)
     \/ (payload.hasMessage /\ IsFalse(payload.message.success))
     \/ ~Truthy(payload.durationSeconds)
  THEN "Failed"
  ELSE IF Truthy(payload.status) /\ payload.status.t = "str"
          /\ includes(toLowerCase(payload.status.s), <<"f", "a", "i", "l">>)
       THEN "Failed"
       ELSE "Completed"

\* Determine call status based on payload.
determineCallStatus(payload) ==
  IF IsFalse(payload.success)
     \/ (payload.hasMessage /\ IsFalse(payload.message.success))
  THEN "Failed"
  ELSE IF Truthy(payload.status) /\ payload.status.t = "str"
          /\ includes(toLowerCase(payload.status.s), <<"f", "a", "i", "l">>)
       THEN "Failed"
       ELSE "Completed"

\* extractDuration trying the paths under message before those at top level.
extractDuration_MessageFirst(payload) ==
  IF payload.hasMessage /\ Truthy(payload.message.durationSeconds)
  THEN payload.message.durationSeconds.n
  ELSE IF payload.hasMessage /\ Truthy(payload.message.duration)
       THEN payload.message.duration.n
  ELSE IF Truthy(payload.durationSeconds) THEN payload.durationSeconds.n
  ELSE IF Truthy(payload.duration) THEN payload.duration.n
  ELSE 0

\* Extract call duration (seconds) from various possible locations.
extractDuration(payload) ==
  IF Truthy(payload.durationSeconds) THEN payload.durationSeconds.n
  ELSE IF payload.hasMessage /\ Truthy(payload.message.durationSeconds)
       THEN payload.message.durationSeconds.n
  ELSE IF Truthy(payload.duration) THEN payload.duration.n
  ELSE IF payload.hasMessage /\ Truthy(payload.message.duration)
       THEN payload.message.duration.n
  ELSE 0

\* The cost billed per started minute.
calculateCallCost_PerStartedMinute(durationMinutes) ==
  ((durationMinutes + 59) \div 60) * 60 * MinuteRateCents

\* durationMinutes * minuteRate.  A duration of d/60 minutes is kept as the
\* integer d, the cost of c/60 cents as the integer c.
calculateCallCost(durationMinutes) == durationMinutes * MinuteRateCents

\* ---------------------------------------------- webhook: extractDisposition
\* The key phrases of the rules, as the character sequences the code passes to
\* includes().

\* lowerContent phrases of the Answering Machine rule
AnsweringMachineContent ==
  { <<"l", "e", "a", "v", "e", " ", "a", " ", "m", "e", "s", "s", "a", "g", "e">>,
    <<"a", "t", " ", "t", "h", "e", " ", "t", "o", "n", "e">>,
    <<"v", "o", "i", "c", "e", "m", "a", "i", "l">>,
    <<"c", "a", "n", "'", "t", " ", "t", "a", "k", "e", " ", "y", "o", "u", "r", " ", "c", "a", "l", "l">>,
    <<"a", "f", "t", "e", "r", " ", "t", "h", "e", " ", "b", "e", "e", "p">> }

\* endReason phrases of the Answering Machine rule
AnsweringMachineReason ==
  { <<"v", "o", "i", "c", "e", "m", "a", "i", "l">> }

\* endReason phrases of the No Answer rule
NoAnswerReason ==
  { <<"c", "u", "s", "t", "o", "m", "e", "r", " ", "d", "i", "d", " ", "n", "o", "t", " ", "a", "n", "s", "w", "e", "r">>,
    <<"c", "u", "s", "t", "o", "m", "e", "r", "-", "d", "i", "d", "-", "n", "o", "t", "-", "a", "n", "s", "w", "e", "r">>,
    <<"t", "w", "i", "l", "i", "o", " ", "f", "a", "i", "l", "e", "d", " ", "c", "o", "n", "n", "e", "c", "t", "i", "o", "n">>,
    <<"n", "o", "-", "a", "n", "s", "w", "e", "r">>,
    <<"n", "o", "_", "a", "n", "s", "w", "e", "r">> }

\* endReason phrases of the Warm Transfer rule
WarmTransferReason ==
  { <<"a", "s", "s", "i", "s", "t", "a", "n", "t", " ", "f", "o", "r", "w", "a", "r", "d", "e", "d", " ", "c", "a", "l", "l">>,
    <<"a", "s", "s", "i", "s", "t", "a", "n", "t", "-", "f", "o", "r", "w", "a", "r", "d", "e", "d", "-", "c", "a", "l", "l">> }

\* lowerContent phrases of Warm Transfer - Education
EducationContent ==
  { <<"e", "d", "u", "c", "a", "t", "i", "o", "n", " ", "c", "o", "n", "s", "u", "l", "t", "a", "n", "t">>,
    <<"e", "d", "u", "c", "a", "t", "i", "o", "n", " ", "a", "d", "v", "i", "s", "o", "r">>,
    <<"f", "o", "r", "w", "a", "r", "d", "e", "d", " ", "t", "o", " ", "e", "d", "u", "c", "a", "t", "i", "o", "n">>,
    <<"t", "r", "a", "n", "s", "f", "e", "r", "r", "e", "d", " ", "t", "o", " ", "e", "d", "u", "c", "a", "t", "i", "o", "n">> }

\* lowerContent phrases of Warm Transfer - Job
JobContent ==
  { <<"j", "o", "b", " ", "c", "o", "n", "s", "u", "l", "t", "a", "n", "t">>,
    <<"j", "o", "b", " ", "a", "d", "v", "i", "s", "o", "r">>,
    <<"f", "o", "r", "w", "a", "r", "d", "e", "d", " ", "t", "o", " ", "j", "o", "b">>,
    <<"t", "r", "a", "n", "s", "f", "e", "r", "r", "e", "d", " ", "t", "o", " ", "j", "o", "b">> }

\* lowerContent phrases of Do Not Contact
DoNotContactContent ==
  { <<"d", "o", " ", "n", "o", "t", " ", "c", "a", "l", "l">>,
    <<"d", "o", "n", "'", "t", " ", "c", "a", "l", "l">>,
    <<"r", "e", "m", "o", "v", "e", " ", "m", "e">>,
    <<"s", "t", "o", "p", " ", "c", "a", "l", "l", "i", "n", "g">>,
    <<"t", "a", "k", "e", " ", "m", "e", " ", "o", "f", "f">>,
    <<"u", "n", "s", "u", "b", "s", "c", "r", "i", "b", "e">> }

\* lowerContent phrases of Language Barrier
LanguageBarrierContent ==
  { <<"l", "a", "n", "g", "u", "a", "g", "e", " ", "b", "a", "r", "r", "i", "e", "r">>,
    <<"n", "o", " ", "e", "n", "g", "l", "i", "s", "h">>,
    <<"d", "o", "n", "'", "t", " ", "s", "p", "e", "a", "k", " ", "e", "n", "g", "l", "i", "s", "h">>,
    <<"h", "a", "b", "l", "a", " ", "e", "s", "p", "a", "ñ", "o", "l">>,
    <<"c", "o", "m", "m", "u", "n", "i", "c", "a", "t", "i", "o", "n", " ", "i", "s", "s", "u", "e">>,
    <<"l", "a", "n", "g", "u", "a", "g", "e", " ", "p", "r", "o", "b", "l", "e", "m">> }

\* lowerContent phrases of Not Qualified
NotQualifiedContent ==
  { <<"n", "o", "t", " ", "q", "u", "a", "l", "i", "f", "i", "e", "d">>,
    <<"q", "u", "a", "l", "i", "f", "i", "c", "a", "t", "i", "o", "n", " ", "f", "a", "i", "l", "e", "d">>,
    <<"n", "o", " ", "h", "i", "g", "h", " ", "s", "c", "h", "o", "o", "l", " ", "d", "i", "p", "l", "o", "m", "a">>,
    <<"n", "o", " ", "g", "e", "d">>,
    <<"u", "n", "d", "e", "r", " ", "1", "8">>,
    <<"n", "o", "t", " ", "a", " ", "u", "s", " ", "c", "i", "t", "i", "z", "e", "n">>,
    <<"n", "o", " ", "g", "r", "e", "e", "n", " ", "c", "a", "r", "d">>,
    <<"c", "u", "r", "r", "e", "n", "t", "l", "y", " ", "e", "n", "r", "o", "l", "l", "e", "d", " ", "i", "n", " ", "s", "c", "h", "o", "o", "l">>,
    <<"c", "u", "r", "r", "e", "n", "t", "l", "y", " ", "e", "n", "r", "o", "l", "l", "e", "d", " ", "i", "n", " ", "c", "o", "l", "l", "e", "g", "e">>,
    <<"s", "t", "i", "l", "l", " ", "i", "n", " ", "s", "c", "h", "o", "o", "l">>,
    <<"s", "t", "i", "l", "l", " ", "i", "n", " ", "c", "o", "l", "l", "e", "g", "e">> }

\* lowerContent phrases of Not Interested
NotInterestedContent ==
  { <<"n", "o", "t", " ", "i", "n", "t", "e", "r", "e", "s", "t", "e", "d">>,
    <<"n", "o", " ", "t", "h", "a", "n", "k", "s">>,
    <<"n", "o", "t", " ", "r", "i", "g", "h", "t", " ", "n", "o", "w">>,
    <<"n", "o", "t", " ", "l", "o", "o", "k", "i", "n", "g">>,
    <<"n", "o", "t", " ", "f", "o", "r", " ", "m", "e">>,
    <<"d", "o", "n", "'", "t", " ", "w", "a", "n", "t">> }

\* endReason phrases of the Hang Up rule
HangUpReason ==
  { <<"c", "u", "s", "t", "o", "m", "e", "r", " ", "e", "n", "d", "e", "d", " ", "c", "a", "l", "l">>,
    <<"c", "u", "s", "t", "o", "m", "e", "r", "-", "e", "n", "d", "e", "d", "-", "c", "a", "l", "l">> }


\* A disposition is a label; the label "Other" carries the end reason.
Disp(label) == [label |-> label, detail |-> <<>>]
DispOther(endReason) == [label |-> "Other", detail |-> endReason]

IncludesAny(s, phrases) == \E k \in phrases : includes(s, k)

\* The text of a JSON value used where the code writes (x || "").
OrEmpty(v) == IF Truthy(v) THEN v.s ELSE <<>>

\* Extract end_reason: first truthy of endedReason, message.endedReason,
\* end_reason, message.end_reason; null otherwise.
extractEndReason(payload) ==
  IF Truthy(payload.endedReason) THEN payload.endedReason
  ELSE IF payload.hasMessage /\ Truthy(payload.message.endedReason)
       THEN payload.message.endedReason
  ELSE IF Truthy(payload.end_reason) THEN payload.end_reason
  ELSE IF payload.hasMessage /\ Truthy(payload.message.end_reason)
       THEN payload.message.end_reason
  ELSE JAbsent

\* Extract summary: message.analysis.summary, analysis.summary, summary.
extractSummary(payload) ==
  IF payload.hasMessage /\ Truthy(payload.message.analysis_summary)
  THEN payload.message.analysis_summary
  ELSE IF Truthy(payload.analysis_summary) THEN payload.analysis_summary
  ELSE IF Truthy(payload.summary) THEN payload.summary
  ELSE JAbsent

\* Extract transcript: message.transcript, transcript.
extractTranscript(payload) ==
  IF payload.hasMessage /\ Truthy(payload.message.transcript)
  THEN payload.message.transcript
  ELSE IF Truthy(payload.transcript) THEN payload.transcript
  ELSE JAbsent

\* The rule list with the No Answer rule tried before the Answering Machine
\* rule.
classify_NoAnswerFirst(lowerContent, endReason) ==
  LET hasReason == Truthy(endReason)
      lowerReason == IF hasReason THEN toLowerCase(endReason.s) ELSE <<>>
      reasonHas(phrases) == hasReason /\ IncludesAny(lowerReason, phrases)
  IN
  IF reasonHas(NoAnswerReason) THEN Disp("No Answer")
  ELSE IF IncludesAny(lowerContent, AnsweringMachineContent)
          \/ reasonHas(AnsweringMachineReason)
       THEN Disp("Answering Machine")
  ELSE IF reasonHas(WarmTransferReason)
       THEN (IF IncludesAny(lowerContent, EducationContent)
             THEN Disp("Warm Transfer - Education")
             ELSE IF IncludesAny(lowerContent, JobContent)
                  THEN Disp("Warm Transfer - Job")
                  ELSE Disp("Warm Transfer"))
  ELSE IF IncludesAny(lowerContent, DoNotContactContent)
       THEN Disp("Do Not Contact")
  ELSE IF IncludesAny(lowerContent, LanguageBarrierContent)
       THEN Disp("Language Barrier")
  ELSE IF IncludesAny(lowerContent, NotQualifiedContent)
       THEN Disp("Not Qualified")
  ELSE IF IncludesAny(lowerContent, NotInterestedContent)
       THEN Disp("Not Interested")
  ELSE IF reasonHas(HangUpReason) THEN Disp("Hang Up")
  ELSE IF hasReason THEN DispOther(endReason.s)
  ELSE Disp("Unknown")

\* The ordered rule list over the lower-cased content and the end reason
\* (endReason?.toLowerCase().includes(k) is false for a null end reason).
classify(lowerContent, endReason) ==
  LET hasReason == Truthy(endReason)
      lowerReason == IF hasReason THEN toLowerCase(endReason.s) ELSE <<>>
      reasonHas(phrases) == hasReason /\ IncludesAny(lowerReason, phrases)
  IN
  IF IncludesAny(lowerContent, AnsweringMachineContent)
     \/ reasonHas(AnsweringMachineReason)
  THEN Disp("Answering Machine")
  ELSE IF reasonHas(NoAnswerReason) THEN Disp("No Answer")
  ELSE IF reasonHas(WarmTransferReason)
       THEN (IF IncludesAny(lowerContent, EducationContent)
             THEN Disp("Warm Transfer - Education")
             ELSE IF IncludesAny(lowerContent, JobContent)
                  THEN Disp("Warm Transfer - Job")
                  ELSE Disp("Warm Transfer"))
  ELSE IF IncludesAny(lowerContent, DoNotContactContent)
       THEN Disp("Do Not Contact")
  ELSE IF IncludesAny(lowerContent, LanguageBarrierContent)
       THEN Disp("Language Barrier")
  ELSE IF IncludesAny(lowerContent, NotQualifiedContent)
       THEN Disp("Not Qualified")
  ELSE IF IncludesAny(lowerContent, NotInterestedContent)
       THEN Disp("Not Interested")
  ELSE IF reasonHas(HangUpReason) THEN Disp("Hang Up")
  ELSE IF hasReason THEN DispOther(endReason.s)
  ELSE Disp("Unknown")

extractDisposition(payload) ==
  LET content == OrEmpty(extractSummary(payload)) \o <<" ">>
                 \o OrEmpty(extractTranscript(payload))
  IN classify(toLowerCase(content), extractEndReason(payload))

\* ------------------------------------------------------------ webhook inputs
\* A nested property a.b.c is the field a_b_c: `a && a.b && a.b.c` is truthy
\* exactly when the value at that path is.
EmptyMessage ==
  [success |-> JAbsent, durationSeconds |-> JAbsent, duration |-> JAbsent,
   endedReason |-> JAbsent, end_reason |-> JAbsent,
   analysis_summary |-> JAbsent, transcript |-> JAbsent,
   artifact_assistantOverrides_metadata_contactId |-> JAbsent,
   assistantOverrides_metadata_contactId |-> JAbsent,
   metadata_contactId |-> JAbsent,
   artifact_customer_number |-> JAbsent, customer_number |-> JAbsent,
   to |-> JAbsent,
   artifact_customer_name |-> JAbsent, customer_name |-> JAbsent]

\* A payload with no field set; `message` is read only when hasMessage.
EmptyPayload ==
  [success |-> JAbsent, status |-> JAbsent, durationSeconds |-> JAbsent,
   duration |-> JAbsent, endedReason |-> JAbsent, end_reason |-> JAbsent,
   analysis_summary |-> JAbsent, summary |-> JAbsent, transcript |-> JAbsent,
   metadata_contactId |-> JAbsent,
   assistantOverrides_metadata_contactId |-> JAbsent,
   customer_contactId |-> JAbsent,
   customer_number |-> JAbsent, to |-> JAbsent, customer_name |-> JAbsent,
   hasMessage |-> FALSE, message |-> EmptyMessage]

\* {success: true, durationSeconds: 90, summary: "not interested, please remove me"}
CompletedPayload ==
  [EmptyPayload EXCEPT !.success = JBool(TRUE), !.durationSeconds = JNum(90),
     !.summary = JStr(<<"n", "o", "t", " ", "i", "n", "t", "e", "r", "e", "s", "t", "e", "d", ",", " ", "p", "l", "e", "a", "s", "e", " ", "r", "e", "m", "o", "v", "e", " ", "m", "e">>)]

\* {success: false, endedReason: "customer-did-not-answer"}
FailedPayload ==
  [EmptyPayload EXCEPT !.success = JBool(FALSE),
     !.endedReason = JStr(<<"c", "u", "s", "t", "o", "m", "e", "r", "-", "d", "i", "d", "-", "n", "o", "t", "-", "a", "n", "s", "w", "e", "r">>)]

\* {success: true, durationSeconds: 30}
ShortCallPayload ==
  [EmptyPayload EXCEPT !.success = JBool(TRUE), !.durationSeconds = JNum(30)]

\* The payloads the provider delivers in the concurrent specification.
WebhookPayloads == {CompletedPayload, FailedPayload}

\* ------------------------------------------ webhook: contact identification
\* Extract contactId from various locations in the payload.
extractContactId(payload) ==
  IF Truthy(payload.metadata_contactId) THEN payload.metadata_contactId
  ELSE IF payload.hasMessage
          /\ Truthy(payload.message.artifact_assistantOverrides_metadata_contactId)
       THEN payload.message.artifact_assistantOverrides_metadata_contactId
  ELSE IF Truthy(payload.assistantOverrides_metadata_contactId)
       THEN payload.assistantOverrides_metadata_contactId
  ELSE IF Truthy(payload.customer_contactId) THEN payload.customer_contactId
  ELSE IF payload.hasMessage
          /\ Truthy(payload.message.assistantOverrides_metadata_contactId)
       THEN payload.message.assistantOverrides_metadata_contactId
  ELSE IF payload.hasMessage /\ Truthy(payload.message.metadata_contactId)
       THEN payload.message.metadata_contactId
  ELSE JAbsent

\* Extract phone number from various locations in the payload.
extractPhoneNumber(payload) ==
  IF Truthy(payload.customer_number) THEN payload.customer_number
  ELSE IF payload.hasMessage /\ Truthy(payload.message.artifact_customer_number)
       THEN payload.message.artifact_customer_number
  ELSE IF payload.hasMessage /\ Truthy(payload.message.customer_number)
       THEN payload.message.customer_number
  ELSE IF Truthy(payload.to) THEN payload.to
  ELSE IF payload.hasMessage /\ Truthy(payload.message.to)
       THEN payload.message.to
  ELSE JAbsent

\* Extract customer name if available.
extractCustomerName(payload) ==
  IF Truthy(payload.customer_name) THEN payload.customer_name
  ELSE IF payload.hasMessage /\ Truthy(payload.message.artifact_customer_name)
       THEN payload.message.artifact_customer_name
  ELSE IF payload.hasMessage /\ Truthy(payload.message.customer_name)
       THEN payload.message.customer_name
  ELSE JAbsent

\* ------------------------------------------------- webhook: lead matching
DigitChars == <<"0", "1", "2", "3", "4", "5", "6", "7", "8", "9">>

IsDigit(c) == \E i \in 1..Len(DigitChars) : DigitChars[i] = c

\* s.replace(/\D/g, '')
stripNonDigits(s) == SelectSeq(s, IsDigit)

\* s.slice(-n)
sliceLast(s, n) == IF Len(s) <= n THEN s ELSE SubSeq(s, Len(s) - n + 1, Len(s))

\* String.prototype.endsWith
endsWith(s, suffix) ==
  /\ Len(suffix) <= Len(s)
  /\ SubSeq(s, Len(s) - Len(suffix) + 1, Len(s)) = suffix

\* column ILIKE '%sub%' (sub holds no wildcard of its own)
ilike(value, sub) == includes(toLowerCase(value), toLowerCase(sub))

\* The id column of row l, as the string the provider echoes back.
LeadId(l) == <<DigitChars[l + 1]>>

\* .limit(25) of the scan, .limit(10) of the look-up by name
ScanLimit == 25
NameLimit == 10

\* No row: the null a look-up returns.
NoLead == 0

\* What a select with .limit(n) and no order may hand to the loop that takes
\* the first row passing `matches`: any such row can come first, and when the
\* rows that do not pass fill the limit by themselves, none may be found.
FirstOfLimited(candidates, matches, n) ==
  (candidates \cap matches)
    \cup (IF candidates \cap matches = {}
             \/ Cardinality(candidates \ matches) >= n
          THEN {NoLead} ELSE {})

\* Step 1: .eq("phone_number", phoneNumber)
exactMatches(rows, phoneNumber) ==
  {l \in DOMAIN rows : rows[l].phone_number = phoneNumber}

\* Step 2: .ilike("phone_number", `%${lastTenDigits}%`)
lastTenMatches(rows, phoneNumber) ==
  {l \in DOMAIN rows :
     ilike(rows[l].phone_number, sliceLast(stripNonDigits(phoneNumber), 10))}

\* Step 3: the comparison of cleaned numbers applied to each scanned lead.
scanMatches(rows, phoneNumber) ==
  LET cleanedPhoneNumber == stripNonDigits(phoneNumber)
      lastTenDigits == sliceLast(cleanedPhoneNumber, 10)
  IN {l \in DOMAIN rows :
        LET leadCleanNumber == stripNonDigits(rows[l].phone_number)
            leadLastDigits == sliceLast(leadCleanNumber, 10)
        IN /\ rows[l].phone_number # <<>>
           /\ \/ leadCleanNumber = cleanedPhoneNumber
              \/ leadLastDigits = lastTenDigits
              \/ endsWith(leadCleanNumber, lastTenDigits)
              \/ endsWith(cleanedPhoneNumber, leadLastDigits)}

\* The scan tried before the two indexed look-ups.
findLeadByPhoneNumber_ScanFirst(rows, phoneNumber) ==
  IF scanMatches(rows, phoneNumber) # {}
  THEN FirstOfLimited(DOMAIN rows, scanMatches(rows, phoneNumber), ScanLimit)
  ELSE IF exactMatches(rows, phoneNumber) # {}
       THEN exactMatches(rows, phoneNumber)
       ELSE IF lastTenMatches(rows, phoneNumber) # {}
            THEN lastTenMatches(rows, phoneNumber)
            ELSE {NoLead}

\* findLeadByPhoneNumber: the rows it may return (NoLead for null).  A select
\* with .limit(1) and no order returns any one of the rows that match.
findLeadByPhoneNumber(rows, phoneNumber) ==
  IF exactMatches(rows, phoneNumber) # {}
  THEN exactMatches(rows, phoneNumber)
  ELSE IF lastTenMatches(rows, phoneNumber) # {}
       THEN lastTenMatches(rows, phoneNumber)
       ELSE FirstOfLimited(DOMAIN rows, scanMatches(rows, phoneNumber), ScanLimit)

\* The rows .ilike("name", `%${name}%`) selects.
nameMatches(rows, name) == {l \in DOMAIN rows : ilike(rows[l].name, name)}

\* The rows whose cleaned number ends with the last four digits.
lastFourMatches(rows, phoneNumber) ==
  {l \in DOMAIN rows :
     /\ rows[l].phone_number # <<>>
     /\ endsWith(stripNonDigits(rows[l].phone_number),
                 sliceLast(stripNonDigits(phoneNumber), 4))}

\* The look-up by name returning a lead of that name whatever its number.
findLeadByNameAndPhone_NameOnly(rows, name, phoneNumber) ==
  IF nameMatches(rows, name) = {} THEN {NoLead} ELSE nameMatches(rows, name)

\* findLeadByNameAndPhone: the rows it may return (NoLead for null).
findLeadByNameAndPhone(rows, name, phoneNumber) ==
  FirstOfLimited(nameMatches(rows, name), lastFourMatches(rows, phoneNumber),
                 NameLimit)

\* Lines 86-105 of the handler: the rows the look-ups may resolve the webhook
\* to (NoLead when they are not tried or find nothing).
resolveLead(rows, payload) ==
  LET phoneNumber == extractPhoneNumber(payload)
      customerName == extractCustomerName(payload)
      byPhone == findLeadByPhoneNumber(rows, phoneNumber.s)
  IN IF Truthy(extractContactId(payload)) \/ ~Truthy(phoneNumber)
     THEN {NoLead}
     ELSE (byPhone \ {NoLead})
          \cup (IF NoLead \in byPhone
                THEN (IF Truthy(customerName)
                      THEN findLeadByNameAndPhone(rows, customerName.s,
                                                  phoneNumber.s)
                      ELSE {NoLead})
                ELSE {})

\* ------------------------------------------------- names and phone numbers
\* The name and phone_number a row of the table may hold, and the number and
\* name a webhook may carry.
IncomingNumber == <<"+", "1", " ", "(", "5", "5", "5", ")", " ", "0", "1", "0", "-", "2", "2", "2", "2">>
IncomingName == <<"a", "n", "n", " ", "l", "e", "e">>

\* phone_number equal to the incoming number
AnnLee == [name |-> <<"A", "n", "n", " ", "L", "e", "e">>,
           phone_number |-> <<"+", "1", " ", "(", "5", "5", "5", ")", " ", "0", "1", "0", "-", "2", "2", "2", "2">>]
\* phone_number holding the last ten digits of the incoming number
BobRay == [name |-> <<"B", "o", "b", " ", "R", "a", "y">>,
           phone_number |-> <<"5", "5", "5", "0", "1", "0", "2", "2", "2", "2">>]
\* phone_number with the same digits, formatted otherwise
CyDow == [name |-> <<"C", "y", " ", "D", "o", "w">>,
          phone_number |-> <<"5", "5", "5", "-", "0", "1", "0", "-", "2", "2", "2", "2">>]
\* another number with the same last four digits, under the incoming name
AnnLeeJr == [name |-> <<"A", "n", "n", " ", "L", "e", "e", " ", "J", "r">>,
             phone_number |-> <<"9", "9", "9", "-", "0", "0", "0", "-", "2", "2", "2", "2">>]
\* a number that nothing matches, under the incoming name
AnnLeeSr == [name |-> <<"A", "n", "n", " ", "L", "e", "e", " ", "S", "r">>,
             phone_number |-> <<"4", "4", "4", "0", "0", "0", "1", "1", "1", "1">>]

Contacts == {AnnLee, BobRay, CyDow, AnnLeeJr, AnnLeeSr}

NoResponse == [status |-> 0, hasBody |-> FALSE, success |-> FALSE, message |-> ""]
NoRequest == [method |-> "none", body |-> "none"]

\* ------------------------------------------------------------- lead rows
NoDisposition == Disp(NULL)

\* handleFileUpload: a lead is inserted Pending with the phone id it was given,
\* or Failed with disposition 'No available phone ID' when none was available.
NewLead(hasPhone) ==
  [status |-> IF hasPhone THEN "Pending" ELSE "Failed",
   disposition |-> IF hasPhone THEN NoDisposition ELSE Disp("No available phone ID"),
   phone_id |-> IF hasPhone THEN "phone" ELSE NULL,
   duration |-> 0, cost |-> 0]

Count(rows, status) ==
  Cardinality({l \in DOMAIN rows : rows[l].status = status})

\* reduce((sum, lead) => sum + (lead.duration || 0), 0), from id i on.
RECURSIVE SumDuration(_, _)
SumDuration(rows, i) ==
  IF i \notin DOMAIN rows THEN 0
  ELSE rows[i].duration + SumDuration(rows, i + 1)

\* reduce((sum, lead) => sum + (lead.cost || 0), 0), from id i on.
RECURSIVE SumCost(_, _)
SumCost(rows, i) ==
  IF i \notin DOMAIN rows THEN 0 ELSE rows[i].cost + SumCost(rows, i + 1)

\* useLeads.updateStats
updateStats(leadsData) ==
  [completed |-> Count(leadsData, "Completed"),
   inProgress |-> Count(leadsData, "In Progress"),
   failed |-> Count(leadsData, "Failed"),
   remaining |-> Count(leadsData, "Pending"),
   totalDuration |-> SumDuration(leadsData, 1),
   totalCost |-> SumCost(leadsData, 1)]

\* The rows the table can hold when the dashboard loads: the two rows an upload
\* inserts, and a Pending row without a phone id (Lead.phone_id is
\* `string | null` whatever the status, and the filters test both).
InitialRows ==
  {NewLead(TRUE), NewLead(FALSE), [NewLead(TRUE) EXCEPT !.phone_id = NULL]}

\* ------------------------------------------------------------------- Init
\* The state after an upload and the fetchLeads that follows it: the React
\* copy equals the table, nothing is running.  The names and numbers of the
\* rows play no part in the dashboard and are left out; the webhook function
\* has served no request.
Init ==
  /\ db \in [Leads -> InitialRows]
  /\ leads = db
  /\ stats = updateStats(db)
  /\ isExecuting = FALSE
  /\ isCallInProgress = FALSE
  /\ intervalId = 0
  /\ timers = <<>>
  /\ tasks = EmptyBag
  /\ requested = {}
  /\ succeeded = {}
  /\ toast = "none"
  /\ contacts = <<>>
  /\ request = NoRequest
  /\ contactId = JAbsent
  /\ response = NoResponse

\* --------------------------------------------------- useCampaignExecution
\* A suspended triggerCall: the lead, the timer whose tick called it (0 for the
\* Call button) and the await it is suspended at.
Task(lead, run, phase) == [lead |-> lead, run |-> run, phase |-> phase]

InFlight == {t \in BagToSet(tasks) : t.phase = "invoke"}

\* Number of copies in the bag B of the elements of the set T.
RECURSIVE Copies(_, _)
Copies(B, T) ==
  IF T = {} THEN 0
  ELSE LET t == CHOOSE x \in T : TRUE
       IN CopiesIn(t, B) + Copies(B, T \ {t})

\* Number of call-initiation requests awaiting the provider.
RequestsInFlight == Copies(tasks, InFlight)

\* clearInterval(h): the timer and the closure of its callback are gone.
Remove(f, h) == [k \in DOMAIN f \ {h} |-> f[k]]

\* A tick suspended in triggerCall resumes with currentIndex++ on the variable
\* of its own callback.  Once that timer is cancelled nothing reads the
\* variable again, so such a task is kept as one that has no callback (run 0).
RECURSIVE Detach(_, _)
Detach(B, h) ==
  IF \A t \in BagToSet(B) : t.run # h
  THEN B
  ELSE LET t == CHOOSE x \in BagToSet(B) : x.run = h
           n == CopiesIn(t, B)
           u == [t EXCEPT !.run = 0]
       IN Detach((B (-) [x \in {t} |-> n]) (+) [x \in {u} |-> n], h)

\* setInterval returns a handle that no live timer and no state variable holds.
NewHandle == CHOOSE h \in 1..(Cardinality(DOMAIN timers) + 2) :
               h \notin DOMAIN timers /\ h # intervalId

\* currentIndex++ of the callback of timer h; the variable of a cancelled
\* timer is no longer read by anything.
Advance(f, h) ==
  IF h \in DOMAIN f
  THEN [f EXCEPT ![h].currentIndex = @ + 1]
  ELSE f

\* The stale check of triggerCall: closureLeads is `leads` of the render that
\* created this triggerCall.
rejectsStale(leadId, closureLeads) == closureLeads[leadId].status # "Pending"

\* triggerCall up to its first await.  The stale check rejects synchronously;
\* otherwise the request to the provider is sent and the call suspends.
triggerCall(leadId, closureLeads, run) ==
  IF rejectsStale(leadId, closureLeads)
  THEN /\ toast' = "Cannot call lead"
       /\ isCallInProgress' = FALSE
       /\ UNCHANGED <<tasks, requested>>
  ELSE /\ BagCardinality(tasks) < MaxInFlight
       /\ isCallInProgress' = TRUE
       /\ tasks' = tasks (+) SetToBag({Task(leadId, run, "invoke")})
       /\ requested' = requested \cup {leadId}
       /\ UNCHANGED toast

\* The filter of startExecution and of the watchdog.
pendingLeadsOf(rows) == FilterFrom({l \in Leads : IsEligible(rows[l])}, 1)

\* The inProgressLeads filter of the watchdog.
inProgressLeadsOf(rows) == FilterFrom({l \in Leads : IsInProgress(rows[l])}, 1)

\* The variables the interval callback closes over: `leads` (through
\* triggerCall, which the callback calls only with ids of pendingLeads, so the
\* rows of those ids are kept) and `isCallInProgress` of the render that
\* started the run, pendingLeads, and the local currentIndex.  ticks counts the
\* firings that went past the end-of-snapshot check.
NewClosure(pendingLeads) ==
  [leads |-> [l \in {pendingLeads[i] : i \in 1..Len(pendingLeads)} |-> leads[l]],
   isCallInProgress |-> isCallInProgress,
   pendingLeads |-> pendingLeads, currentIndex |-> 0, ticks |-> 0]

\* startExecution without setIntervalId(id).
startExecution_NoHandle ==
  LET pendingLeads == pendingLeadsOf(leads) IN
  IF Len(pendingLeads) = 0
  THEN /\ toast' = "No pending leads with phone IDs available to process"
       /\ UNCHANGED <<isExecuting, intervalId, timers>>
  ELSE /\ isExecuting' = TRUE
       /\ toast' = "Started processing"
       /\ timers' = timers @@ (NewHandle :> NewClosure(pendingLeads))
       /\ UNCHANGED intervalId

\* startExecution without the early return on an empty snapshot.
startExecution_NoEmptyCheck ==
  /\ isExecuting' = TRUE
  /\ toast' = "Started processing"
  /\ timers' = timers @@ (NewHandle :> NewClosure(pendingLeadsOf(leads)))
  /\ intervalId' = NewHandle

startExecution ==
  LET pendingLeads == pendingLeadsOf(leads) IN
  IF Len(pendingLeads) = 0
  THEN /\ toast' = "No pending leads with phone IDs available to process"
       /\ UNCHANGED <<isExecuting, intervalId, timers>>
  ELSE /\ isExecuting' = TRUE
       /\ toast' = "Started processing"
       /\ timers' = timers @@ (NewHandle :> NewClosure(pendingLeads))
       /\ intervalId' = NewHandle

\* stopExecution reading an intervalId that is still null (the value of an
\* earlier render): the timer is not cleared.
stopExecution_StaleHandle ==
  /\ UNCHANGED <<timers, tasks, intervalId>>
  /\ isExecuting' = FALSE

\* stopExecution that flips isExecuting instead of clearing it.
stopExecution_Flips ==
  /\ IF intervalId # 0
     THEN /\ timers' = Remove(timers, intervalId)
          /\ tasks' = Detach(tasks, intervalId)
          /\ intervalId' = 0
     ELSE UNCHANGED <<timers, tasks, intervalId>>
  /\ isExecuting' = ~isExecuting

stopExecution ==
  /\ IF intervalId # 0
     THEN /\ timers' = Remove(timers, intervalId)
          /\ tasks' = Detach(tasks, intervalId)
          /\ intervalId' = 0
     ELSE UNCHANGED <<timers, tasks, intervalId>>
  /\ isExecuting' = FALSE

\* toggleExecution starting a run whether or not one is executing.
ToggleExecution_AlwaysStarts ==
  /\ Cardinality(DOMAIN timers) < MaxTimers
  /\ startExecution
  /\ UNCHANGED <<db, leads, stats, isCallInProgress, tasks, requested,
                 succeeded>>
  /\ UNCHANGED webhookVars

ToggleExecution ==
  /\ IF ~isExecuting
     THEN startExecution /\ UNCHANGED tasks
     ELSE stopExecution /\ toast' = "Stopped execution"
  /\ UNCHANGED <<db, leads, stats, isCallInProgress, requested, succeeded>>
  /\ UNCHANGED webhookVars

\* stopExecution as returned by the hook, called in any state.
StopExecution ==
  /\ stopExecution
  /\ toast' = "Stopped execution"
  /\ UNCHANGED <<db, leads, stats, isCallInProgress, requested, succeeded>>
  /\ UNCHANGED webhookVars

\* `if (!isCallInProgress)` of the interval callback: the flag it reads is the
\* one captured when the callback was created.
tickMayDispatch(closure) == ~closure.isCallInProgress

\* One firing of the interval callback of timer h.
Tick(h) ==
  /\ h \in DOMAIN timers
  /\ LET c == timers[h] IN
     IF c.currentIndex >= Len(c.pendingLeads)
     THEN /\ timers' = Remove(timers, h)
          /\ tasks' = Detach(tasks, h)
          /\ intervalId' = 0
          /\ isExecuting' = FALSE
          /\ toast' = "Campaign execution completed"
          /\ UNCHANGED <<isCallInProgress, requested>>
     ELSE LET currentLead == c.pendingLeads[c.currentIndex + 1]
              counted == [timers EXCEPT ![h].ticks = @ + 1]
          IN IF tickMayDispatch(c)
             THEN /\ triggerCall(currentLead, c.leads, h)
                  /\ timers' = IF rejectsStale(currentLead, c.leads)
                               THEN Advance(counted, h)
                               ELSE counted
                  /\ UNCHANGED <<intervalId, isExecuting>>
             ELSE /\ timers' = Advance(counted, h)
                  /\ UNCHANGED <<intervalId, isExecuting, isCallInProgress,
                                 tasks, requested, toast>>
  /\ UNCHANGED <<db, leads, stats, succeeded>>
  /\ UNCHANGED webhookVars

\* triggerCall resumed with the provider's answer: response.error, a thrown
\* request, data.success false, or data.success true.  On success the update
\* of the row is awaited next; on every other answer only `finally` runs and,
\* for a tick, the callback goes on to currentIndex++.
ProviderOutcomes == {"error", "throw", "refused", "success"}

\* The success branch taken whenever the response carries data, whatever
\* data.success says.
ProviderResponds_AnyData(t, outcome) ==
  /\ t \in InFlight
  /\ IF outcome \in {"success", "refused"}
     THEN /\ toast' = "Call initiated successfully"
          /\ succeeded' = IF outcome = "success" THEN succeeded \cup {t.lead}
                          ELSE succeeded
          /\ tasks' = (tasks (-) SetToBag({t}))
                      (+) SetToBag({[t EXCEPT !.phase = "update"]})
          /\ UNCHANGED <<isCallInProgress, timers, db>>
     ELSE /\ toast' = "Failed to initiate call"
          /\ isCallInProgress' = FALSE
          /\ tasks' = tasks (-) SetToBag({t})
          /\ timers' = Advance(timers, t.run)
          /\ UNCHANGED <<succeeded, db>>
  /\ UNCHANGED <<leads, stats, isExecuting, intervalId, requested>>
  /\ UNCHANGED webhookVars

\* A failed initiation leaving the cursor of its tick where it was.
ProviderResponds_NoAdvance(t, outcome) ==
  /\ t \in InFlight
  /\ IF outcome = "success"
     THEN /\ toast' = "Call initiated successfully"
          /\ succeeded' = succeeded \cup {t.lead}
          /\ tasks' = (tasks (-) SetToBag({t}))
                      (+) SetToBag({[t EXCEPT !.phase = "update"]})
          /\ UNCHANGED <<isCallInProgress, timers>>
     ELSE /\ toast' = "Failed to initiate call"
          /\ isCallInProgress' = FALSE
          /\ tasks' = tasks (-) SetToBag({t})
          /\ UNCHANGED <<succeeded, timers>>
  /\ UNCHANGED <<db, leads, stats, isExecuting, intervalId, requested>>
  /\ UNCHANGED webhookVars

\* A failed initiation recorded on the row as status Failed.
ProviderResponds_MarksFailed(t, outcome) ==
  /\ t \in InFlight
  /\ IF outcome = "success"
     THEN /\ toast' = "Call initiated successfully"
          /\ succeeded' = succeeded \cup {t.lead}
          /\ tasks' = (tasks (-) SetToBag({t}))
                      (+) SetToBag({[t EXCEPT !.phase = "update"]})
          /\ UNCHANGED <<isCallInProgress, timers, db>>
     ELSE /\ toast' = "Failed to initiate call"
          /\ db' = [db EXCEPT ![t.lead].status = "Failed"]
          /\ isCallInProgress' = FALSE
          /\ tasks' = tasks (-) SetToBag({t})
          /\ timers' = Advance(timers, t.run)
          /\ UNCHANGED succeeded
  /\ UNCHANGED <<leads, stats, isExecuting, intervalId, requested>>
  /\ UNCHANGED webhookVars

ProviderResponds(t, outcome) ==
  /\ t \in InFlight
  /\ IF outcome = "success"
     THEN /\ toast' = "Call initiated successfully"
          /\ succeeded' = succeeded \cup {t.lead}
          /\ tasks' = (tasks (-) SetToBag({t}))
                      (+) SetToBag({[t EXCEPT !.phase = "update"]})
          /\ UNCHANGED <<isCallInProgress, timers>>
     ELSE /\ toast' = "Failed to initiate call"
          /\ isCallInProgress' = FALSE
          /\ tasks' = tasks (-) SetToBag({t})
          /\ timers' = Advance(timers, t.run)
          /\ UNCHANGED succeeded
  /\ UNCHANGED <<db, leads, stats, isExecuting, intervalId, requested>>
  /\ UNCHANGED webhookVars

\* The update marking the lead Completed as soon as the call is initiated.
markInProgress_Completes(row) ==
  [row EXCEPT !.status = "Completed", !.disposition = Disp("Call initiated")]

\* The update writing the status and leaving the disposition as it was.
markInProgress_StatusOnly(row) == [row EXCEPT !.status = "In Progress"]

\* The row update of the success branch.
markInProgress(row) ==
  [row EXCEPT !.status = "In Progress", !.disposition = Disp("Call initiated")]

\* triggerCall releasing the flag only when the update of the row succeeded.
LeadUpdateDone_KeepsFlagOnError(t, ok) ==
  /\ t \in BagToSet(tasks)
  /\ t.phase = "update"
  /\ db' = IF ok THEN [db EXCEPT ![t.lead] = markInProgress(@)] ELSE db
  /\ isCallInProgress' = IF ok THEN FALSE ELSE isCallInProgress
  /\ tasks' = tasks (-) SetToBag({t})
  /\ timers' = Advance(timers, t.run)
  /\ UNCHANGED <<leads, stats, isExecuting, intervalId, requested,
                 succeeded, toast>>
  /\ UNCHANGED webhookVars

\* triggerCall resumed after the update of the row: the update was applied, or
\* it failed (updateError) and the row is as it was; then `finally`.
LeadUpdateDone(t, ok) ==
  /\ t \in BagToSet(tasks)
  /\ t.phase = "update"
  /\ db' = IF ok THEN [db EXCEPT ![t.lead] = markInProgress(@)] ELSE db
  /\ isCallInProgress' = FALSE
  /\ tasks' = tasks (-) SetToBag({t})
  /\ timers' = Advance(timers, t.run)
  /\ UNCHANGED <<leads, stats, isExecuting, intervalId, requested,
                 succeeded, toast>>
  /\ UNCHANGED webhookVars

\* LeadsTable renders the Call button only for a row that is Pending with a
\* phone id, disabled while isCallInProgress; triggerSingleCall checks the flag
\* again and calls triggerCall of the current render.
TriggerSingleCall(leadId) ==
  /\ leads[leadId].status = "Pending"
  /\ leads[leadId].phone_id # NULL
  /\ ~isCallInProgress
  /\ triggerCall(leadId, leads, 0)
  /\ UNCHANGED <<db, leads, stats, isExecuting, intervalId, timers,
                 succeeded>>
  /\ UNCHANGED webhookVars

\* ------------------------------------------------------ the webhook handler
\* What the handler extracts from a payload before it touches the table.
normalize(payload) ==
  [status |-> determineCallStatus(payload),
   disposition |-> extractDisposition(payload),
   duration |-> extractDuration(payload),
   cost |-> calculateCallCost(extractDuration(payload))]

\* The update adding the call to the row's duration and cost.
webhookUpdate_Accumulates(row, outcome) ==
  [row EXCEPT !.status = outcome.status,
              !.disposition = outcome.disposition,
              !.duration = @ + outcome.duration,
              !.cost = @ + outcome.cost]

\* The update the handler applies to the row it resolved.
webhookUpdate(row, outcome) ==
  [row EXCEPT !.status = outcome.status,
              !.disposition = outcome.disposition,
              !.duration = outcome.duration,
              !.cost = outcome.cost]

\* What the handler extracts from the completed call's payload.
CompletedOutcome == normalize(CompletedPayload)

\* The normalized outcomes of the payloads the provider delivers.
WebhookOutcomes == {normalize(p) : p \in WebhookPayloads}

\* A webhook of the provider for a call it was asked to place, carrying the
\* lead's id as metadata.contactId.
Webhook(leadId, outcome) ==
  /\ leadId \in requested
  /\ db' = [db EXCEPT ![leadId] = webhookUpdate(@, outcome)]
  /\ UNCHANGED <<hookVars, webhookVars>>

\* ------------------------------------------------- the webhook function
\* The rows of the table in the specification of the webhook function.
NumRows == 2
Rows == 1..NumRows

\* The status of a Response created without one.
DefaultStatus == 200

Response(status, success, message) ==
  [status |-> status, hasBody |-> TRUE, success |-> success, message |-> message]

\* The handler answering its failures with an error status.
respond_FailuresAs500(site) ==
  CASE site = "preflight" ->
         [status |-> DefaultStatus, hasBody |-> FALSE, success |-> FALSE,
          message |-> ""]
    [] site = "invalidJson" -> Response(200, FALSE, "Invalid JSON payload")
    [] site = "noContact" ->
         Response(200, FALSE, "Failed to find contact information in webhook")
    [] site = "updateError" -> Response(500, FALSE, "Failed to update lead")
    [] site = "processed" ->
         Response(DefaultStatus, TRUE, "Webhook processed successfully")
    [] site = "caught" -> Response(500, FALSE, "Failed to process webhook")

\* The Response each return statement of the handler creates.
respond(site) ==
  CASE site = "preflight" ->
         [status |-> DefaultStatus, hasBody |-> FALSE, success |-> FALSE,
          message |-> ""]
    [] site = "invalidJson" -> Response(200, FALSE, "Invalid JSON payload")
    [] site = "noContact" ->
         Response(200, FALSE, "Failed to find contact information in webhook")
    [] site = "updateError" -> Response(200, FALSE, "Failed to update lead")
    [] site = "processed" ->
         Response(DefaultStatus, TRUE, "Webhook processed successfully")
    [] site = "caught" -> Response(200, FALSE, "Failed to process webhook")

\* extractDisposition throws a TypeError when it calls substring on a summary
\* or toLowerCase on an end reason that is not a string; the end reason is
\* first touched by the Answering Machine rule, after its content phrases.
extractDispositionThrows(payload) ==
  \/ Truthy(extractSummary(payload)) /\ extractSummary(payload).t # "str"
  \/ /\ Truthy(extractEndReason(payload))
     /\ extractEndReason(payload).t # "str"
     /\ ~IncludesAny(toLowerCase(OrEmpty(extractSummary(payload)) \o <<" ">>
                                   \o OrEmpty(extractTranscript(payload))),
                     AnsweringMachineContent)

\* The look-ups run when the payload has a phone number and no contactId.
needsLookup(payload) ==
  ~Truthy(extractContactId(payload)) /\ Truthy(extractPhoneNumber(payload))

\* What the environment does to the handler's requests to the table: a
\* look-up answers or its fetch rejects (no update follows a rejected
\* look-up); the update is applied and answered, or fails without or after
\* having been applied.
Environments ==
  { [lookup |-> "ok", update |-> "ok"],
    [lookup |-> "rejects", update |-> "ok"],
    [lookup |-> "ok", update |-> "error"],
    [lookup |-> "ok", update |-> "errorApplied"] }

\* The rows .eq("id", contactId) selects.
rowsWithId(rows, id) == {l \in DOMAIN rows : JStr(LeadId(l)) = id}

\* The update applied to the rows with the given id.
updateLead(rows, id, outcome) ==
  [l \in DOMAIN rows |->
     IF l \in rowsWithId(rows, id) THEN webhookUpdate(rows[l], outcome)
     ELSE rows[l]]

\* One invocation of the handler of `serve`: the request req and the
\* behaviour env of the table's API.
Serve(req, env) ==
  LET payload == req.payload
      resolved(found) ==
        IF Truthy(extractContactId(payload)) THEN extractContactId(payload)
        ELSE IF found # NoLead THEN JStr(LeadId(found)) ELSE JAbsent
      return(site) == response' = respond(site)
  IN
  /\ request' = req
  /\ IF req.method = "OPTIONS"
     THEN return("preflight") /\ contactId' = JAbsent /\ UNCHANGED db
     ELSE IF req.body = "malformed"
     THEN return("invalidJson") /\ contactId' = JAbsent /\ UNCHANGED db
     ELSE IF req.body = "null" \/ extractDispositionThrows(payload)
     THEN return("caught") /\ contactId' = JAbsent /\ UNCHANGED db
     ELSE IF needsLookup(payload) /\ env.lookup = "rejects"
     THEN /\ return("caught")
          /\ contactId' = extractContactId(payload)
          /\ UNCHANGED db
     ELSE \E found \in resolveLead(contacts, payload) :
          /\ contactId' = resolved(found)
          /\ IF ~Truthy(resolved(found)) /\ ~Truthy(extractPhoneNumber(payload))
             THEN return("noContact") /\ UNCHANGED db
             ELSE IF Truthy(resolved(found))
             THEN /\ db' = IF env.update = "error" THEN db
                           ELSE updateLead(db, resolved(found),
                                           normalize(payload))
                  /\ IF env.update = "ok" THEN return("processed")
                     ELSE return("updateError")
             ELSE return("processed") /\ UNCHANGED db
  /\ UNCHANGED <<hookVars, contacts>>

\* ---------------------------------------------------------------- useLeads
\* The condition of the campaign-finished effect of useCampaignExecution.
\* The effect testing stats.failed where the code tests stats.completed.
campaignFinished_TestsFailed(rows, st, executing) ==
  /\ NumLeads > 0
  /\ executing
  /\ Len(pendingLeadsOf(rows)) = 0
  /\ Len(inProgressLeadsOf(rows)) = 0
  /\ st.failed > 0

campaignFinished(rows, st, executing) ==
  /\ NumLeads > 0
  /\ executing
  /\ Len(pendingLeadsOf(rows)) = 0
  /\ Len(inProgressLeadsOf(rows)) = 0
  /\ st.completed > 0

\* fetchLeads replaces `leads` and `stats` by the rows of the table; the
\* render that follows runs the campaign-finished effect, whose dependencies
\* changed, with the new values.
FetchLeads ==
  /\ leads' = db
  /\ stats' = updateStats(db)
  /\ IF campaignFinished(leads', stats', isExecuting)
     THEN stopExecution /\ toast' = "Campaign Finished!"
     ELSE UNCHANGED <<isExecuting, intervalId, timers, tasks, toast>>
  /\ UNCHANGED <<db, isCallInProgress, requested, succeeded>>
  /\ UNCHANGED webhookVars

\* ------------------------------------------------------------ specification
Next ==
  \/ ToggleExecution
  \/ StopExecution
  \/ \E h \in DOMAIN timers : Tick(h)
  \/ \E t \in BagToSet(tasks), o \in ProviderOutcomes : ProviderResponds(t, o)
  \/ \E t \in BagToSet(tasks), ok \in BOOLEAN : LeadUpdateDone(t, ok)
  \/ \E l \in Leads : TriggerSingleCall(l)
  \/ \E l \in Leads, o \in WebhookOutcomes : Webhook(l, o)
  \/ FetchLeads

Spec == Init /\ [][Next]_vars

\* ---------------------------------- specification of the webhook function
\* The identification a payload carries: the id of row 1 or an id of no row
\* as metadata.contactId, the customer's number with or without the name, or
\* nothing.
Identified(payload) ==
  { [payload EXCEPT !.metadata_contactId = JStr(LeadId(1))],
    [payload EXCEPT !.metadata_contactId = JStr(LeadId(0))],
    [payload EXCEPT !.customer_number = JStr(IncomingNumber)],
    [payload EXCEPT !.customer_number = JStr(IncomingNumber),
                    !.customer_name = JStr(IncomingName)],
    payload }

\* {endedReason: 1}: an end reason that is not a string.
ThrowingPayload ==
  [EmptyPayload EXCEPT !.metadata_contactId = JStr(LeadId(1)),
                       !.endedReason = JNum(1)]

Post(payload) == [method |-> "POST", body |-> "object", payload |-> payload]

\* The requests delivered to the function: a CORS preflight, a body that is no
\* JSON, the JSON null, and objects.
Requests ==
  { [method |-> "OPTIONS", body |-> "none", payload |-> EmptyPayload],
    [method |-> "POST", body |-> "malformed", payload |-> EmptyPayload],
    [method |-> "POST", body |-> "null", payload |-> EmptyPayload],
    Post(ThrowingPayload) }
  \cup {Post(p) : p \in Identified(CompletedPayload)}
  \cup {Post([FailedPayload EXCEPT !.metadata_contactId = JStr(LeadId(1))]),
        Post([FailedPayload EXCEPT !.customer_number = JStr(IncomingNumber)]),
        Post([ShortCallPayload EXCEPT !.metadata_contactId = JStr(LeadId(1))])}

\* The table after the calls of its leads were initiated; the dashboard is
\* not loaded (useLeads starts with no leads and zero statistics).
TableInit(choices) ==
  /\ contacts \in [Rows -> choices]
  /\ db = [l \in Rows |-> markInProgress(NewLead(TRUE))]
  /\ request = NoRequest
  /\ contactId = JAbsent
  /\ response = NoResponse
  /\ leads = <<>>
  /\ stats = [completed |-> 0, inProgress |-> 0, failed |-> 0, remaining |-> 0,
              totalDuration |-> 0, totalCost |-> 0]
  /\ isExecuting = FALSE
  /\ isCallInProgress = FALSE
  /\ intervalId = 0
  /\ timers = <<>>
  /\ tasks = EmptyBag
  /\ requested = {}
  /\ succeeded = {}
  /\ toast = "none"

\* Leads that the incoming number resolves to, and leads it does not.
WebhookInit == TableInit({BobRay, AnnLeeSr})

WebhookNext ==
  \E req \in Requests, env \in Environments : Serve(req, env)

WebhookSpec == WebhookInit /\ [][WebhookNext]_vars

\* ------------------------------------- specification of the lead matcher
\* The webhooks that make the handler look the lead up: the number alone, and
\* the number with the name; the table's API answers.
LookupRequests ==
  { Post([CompletedPayload EXCEPT !.customer_number = JStr(IncomingNumber)]),
    Post([CompletedPayload EXCEPT !.customer_number = JStr(IncomingNumber),
                                  !.customer_name = JStr(IncomingName)]),
    Post([FailedPayload EXCEPT !.customer_number = JStr(IncomingNumber)]) }

\* The table's API answering every call.
ApiAnswers == [lookup |-> "ok", update |-> "ok"]

MatcherInit == TableInit(Contacts)

MatcherNext ==
  \E req \in LookupRequests : Serve(req, ApiAnswers)

MatcherSpec == MatcherInit /\ [][MatcherNext]_vars

\* ------------------------------------ specification of the normalizer
\* The webhooks of lead 1 whose payloads vary in the fields the status is
\* read from: success, message.success, status, durationSeconds.
SuccessValues == {JAbsent, JBool(TRUE), JBool(FALSE)}

\* message.success; "none" is a payload without message.
MessageSuccessValues == {"none", "absent", "true", "false"}

\* The values of status that are strings containing "fail" in some case.
FailStatuses ==
  { JStr(<<"f", "a", "i", "l", "e", "d">>),
    JStr(<<"F", "A", "I", "L", "E", "D">>),
    JStr(<<"c", "a", "l", "l", "-", "F", "a", "i", "l", "u", "r", "e">>) }

\* The other values of status: strings, the empty string, a number, none.
OtherStatuses ==
  { JAbsent, JStr(<<>>), JNum(1),
    JStr(<<"c", "o", "m", "p", "l", "e", "t", "e", "d">>),
    JStr(<<"f", "i", "a", "l">>) }

DurationValues == {JAbsent, JNum(0), JNum(90)}

StatusPayload(success, messageSuccess, status, durationSeconds) ==
  [EmptyPayload EXCEPT
     !.metadata_contactId = JStr(LeadId(1)),
     !.success = success,
     !.status = status,
     !.durationSeconds = durationSeconds,
     !.hasMessage = messageSuccess # "none",
     !.message = [EmptyMessage EXCEPT
                    !.success = IF messageSuccess = "true" THEN JBool(TRUE)
                                ELSE IF messageSuccess = "false"
                                     THEN JBool(FALSE)
                                     ELSE JAbsent]]

StatusPayloads ==
  { StatusPayload(s, m, st, d) :
      s \in SuccessValues, m \in MessageSuccessValues,
      st \in FailStatuses \cup OtherStatuses, d \in DurationValues }

\* A piece of a summary or a transcript, with the rule whose phrase it holds.
ContentParts ==
  { [rule |-> "none", text |-> <<>>],
    [rule |-> "none", text |-> <<"H", "e", "l", "l", "o">>],
    [rule |-> "Answering Machine", text |-> <<"P", "l", "e", "a", "s", "e", " ", "L", "e", "a", "v", "e", " ", "a", " ", "M", "e", "s", "s", "a", "g", "e">>],
    [rule |-> "Education", text |-> <<"e", "d", "u", "c", "a", "t", "i", "o", "n", " ", "a", "d", "v", "i", "s", "o", "r">>],
    [rule |-> "Job", text |-> <<"T", "r", "a", "n", "s", "f", "e", "r", "r", "e", "d", " ", "t", "o", " ", "J", "o", "b">>],
    [rule |-> "Do Not Contact", text |-> <<"s", "t", "o", "p", " ", "c", "a", "l", "l", "i", "n", "g">>],
    [rule |-> "Language Barrier", text |-> <<"N", "o", " ", "E", "n", "g", "l", "i", "s", "h">>],
    [rule |-> "Not Qualified", text |-> <<"u", "n", "d", "e", "r", " ", "1", "8">>],
    [rule |-> "Not Interested", text |-> <<"n", "o", " ", "t", "h", "a", "n", "k", "s">>] }

\* An end reason, with the rule whose phrase it holds.
EndReasons ==
  { [rule |-> "none", value |-> JAbsent],
    [rule |-> "Answering Machine", value |-> JStr(<<"V", "o", "i", "c", "e", "m", "a", "i", "l">>)],
    [rule |-> "No Answer", value |-> JStr(<<"c", "u", "s", "t", "o", "m", "e", "r", "-", "d", "i", "d", "-", "n", "o", "t", "-", "a", "n", "s", "w", "e", "r">>)],
    [rule |-> "Warm Transfer", value |-> JStr(<<"a", "s", "s", "i", "s", "t", "a", "n", "t", "-", "f", "o", "r", "w", "a", "r", "d", "e", "d", "-", "c", "a", "l", "l">>)],
    [rule |-> "Hang Up", value |-> JStr(<<"C", "u", "s", "t", "o", "m", "e", "r", "-", "E", "n", "d", "e", "d", "-", "C", "a", "l", "l">>)],
    [rule |-> "Other", value |-> JStr(<<"s", "i", "l", "e", "n", "c", "e", "-", "t", "i", "m", "e", "d", "-", "o", "u", "t">>)] }

\* The webhook of lead 1 with a summary, a transcript and an end reason.
ContentPayload(summary, transcript, endedReason) ==
  [EmptyPayload EXCEPT
     !.metadata_contactId = JStr(LeadId(1)),
     !.summary = IF summary.text = <<>> THEN JAbsent ELSE JStr(summary.text),
     !.transcript = IF transcript.text = <<>> THEN JAbsent
                    ELSE JStr(transcript.text),
     !.endedReason = endedReason.value]

\* The inputs of the classifier: every summary, transcript and end reason.
ContentCases ==
  { [summary |-> a, transcript |-> b, endedReason |-> r] :
      a \in ContentParts, b \in ContentParts, r \in EndReasons }

NormalizerPayloads ==
  StatusPayloads
    \cup {ContentPayload(c.summary, c.transcript, c.endedReason) : c \in ContentCases}

NormalizerInit == TableInit({AnnLee})

\* The requests carrying them.
NormalizerRequests == {Post(payload) : payload \in NormalizerPayloads}

NormalizerNext ==
  \E req \in NormalizerRequests : Serve(req, ApiAnswers)

NormalizerSpec == NormalizerInit /\ [][NormalizerNext]_vars

\* ------------------------------ Dashboard.tsx: the scheduler of the page
\* The page keeps its own isExecuting, isCallInProgress, intervalId, leads and
\* stats and its own copies of triggerCall, startExecution, stopExecution and
\* the campaign-finished effect; they are modelled on the variables of the
\* hook.

\* setInterval returns a handle that no live timer, no state variable and no
\* closure holds.
Dashboard_NewHandle ==
  CHOOSE h \in 1..(2 * Cardinality(DOMAIN timers) + 2) :
    /\ h \notin DOMAIN timers
    /\ h # intervalId
    /\ \A k \in DOMAIN timers : timers[k].intervalId # h

\* The variables the page's interval callback closes over: those of the
\* hook's callback and, through stopExecution, `intervalId` of the render that
\* started the run.
Dashboard_NewClosure(pendingLeads) ==
  [leads |-> [l \in {pendingLeads[i] : i \in 1..Len(pendingLeads)} |-> leads[l]],
   isCallInProgress |-> isCallInProgress,
   intervalId |-> intervalId,
   pendingLeads |-> pendingLeads, currentIndex |-> 0, ticks |-> 0]

Dashboard_startExecution ==
  LET pendingLeads == pendingLeadsOf(leads) IN
  IF Len(pendingLeads) = 0
  THEN /\ toast' = "No pending leads with phone IDs available to process"
       /\ UNCHANGED <<isExecuting, intervalId, timers>>
  ELSE /\ isExecuting' = TRUE
       /\ toast' = "Started processing"
       /\ timers' = timers @@ (Dashboard_NewHandle :> Dashboard_NewClosure(pendingLeads))
       /\ intervalId' = Dashboard_NewHandle

\* stopExecution of a render whose intervalId is closureIntervalId (0 is
\* null); clearInterval of a handle that is not live does nothing.
Dashboard_stopExecution(closureIntervalId) ==
  /\ IF closureIntervalId # 0
     THEN /\ timers' = Remove(timers, closureIntervalId)
          /\ tasks' = Detach(tasks, closureIntervalId)
          /\ intervalId' = 0
     ELSE UNCHANGED <<timers, tasks, intervalId>>
  /\ isExecuting' = FALSE
  /\ toast' = "Stopped execution"

\* The Start/Stop button, disabled while isCallInProgress.
Dashboard_toggleExecution ==
  /\ ~isCallInProgress
  /\ IF ~isExecuting
     THEN /\ Cardinality(DOMAIN timers) < MaxTimers
          /\ Dashboard_startExecution
          /\ UNCHANGED tasks
     ELSE Dashboard_stopExecution(intervalId)
  /\ UNCHANGED <<db, leads, stats, isCallInProgress, requested, succeeded>>
  /\ UNCHANGED webhookVars

\* The cursor of timer h is at the end of its snapshot.
AtEnd(h) == timers[h].currentIndex >= Len(timers[h].pendingLeads)

\* One firing of the page's interval callback of timer h.  At the end of the
\* snapshot it calls the stopExecution it closed over; before the end it is
\* the hook's callback (the page's triggerCall is the hook's up to its await).
Dashboard_Tick(h) ==
  /\ h \in DOMAIN timers
  /\ LET c == timers[h] IN
     IF AtEnd(h)
     THEN /\ Dashboard_stopExecution(c.intervalId)
          /\ UNCHANGED <<isCallInProgress, requested>>
     ELSE LET currentLead == c.pendingLeads[c.currentIndex + 1]
              counted == [timers EXCEPT ![h].ticks = @ + 1]
          IN IF tickMayDispatch(c)
             THEN /\ triggerCall(currentLead, c.leads, h)
                  /\ timers' = IF rejectsStale(currentLead, c.leads)
                               THEN Advance(counted, h)
                               ELSE counted
                  /\ UNCHANGED <<intervalId, isExecuting>>
             ELSE /\ timers' = Advance(counted, h)
                  /\ UNCHANGED <<intervalId, isExecuting, isCallInProgress,
                                 tasks, requested, toast>>
  /\ UNCHANGED <<db, leads, stats, succeeded>>
  /\ UNCHANGED webhookVars

\* fetchLeads of the page resolved: it is started by triggerCall after the
\* provider's answer, by triggerSingleCall, by the Refresh button, every five
\* seconds and on every change of the table, so one may resolve at any time.
\* It replaces leads and stats (the rows are one upload batch); the render
\* that follows runs the campaign-finished effect with the new values and the
\* stopExecution of that render.
Dashboard_fetchLeads ==
  /\ leads' = db
  /\ stats' = updateStats(db)
  /\ IF campaignFinished(leads', stats', isExecuting)
     THEN Dashboard_stopExecution(intervalId)
     ELSE UNCHANGED <<isExecuting, intervalId, timers, tasks, toast>>
  /\ UNCHANGED <<db, isCallInProgress, requested, succeeded>>
  /\ UNCHANGED webhookVars

\* The page after an upload: the answers of the provider, the row updates,
\* the Call button and the webhooks are those of the hook's specification.
DashboardNext ==
  \/ Dashboard_toggleExecution
  \/ \E h \in DOMAIN timers : Dashboard_Tick(h)
  \/ \E t \in BagToSet(tasks), o \in ProviderOutcomes : ProviderResponds(t, o)
  \/ \E t \in BagToSet(tasks), ok \in BOOLEAN : LeadUpdateDone(t, ok)
  \/ \E l \in Leads : TriggerSingleCall(l)
  \/ \E l \in Leads, o \in WebhookOutcomes : Webhook(l, o)
  \/ Dashboard_fetchLeads

DashboardSpec == Init /\ [][DashboardNext]_vars

\* ------------------------------- specification of the field extraction
\* A candidate path of a field: a property of the payload or of its message.
Top(key) == [inMessage |-> FALSE, key |-> key]
InMessage(key) == [inMessage |-> TRUE, key |-> key]

\* The candidate paths of each field, in the order the code tries them.
ContactIdPaths ==
  << Top("metadata_contactId"),
     InMessage("artifact_assistantOverrides_metadata_contactId"),
     Top("assistantOverrides_metadata_contactId"),
     Top("customer_contactId"),
     InMessage("assistantOverrides_metadata_contactId"),
     InMessage("metadata_contactId") >>

PhoneNumberPaths ==
  << Top("customer_number"), InMessage("artifact_customer_number"),
     InMessage("customer_number"), Top("to"), InMessage("to") >>

CustomerNamePaths ==
  << Top("customer_name"), InMessage("artifact_customer_name"),
     InMessage("customer_name") >>

EndReasonPaths ==
  << Top("endedReason"), InMessage("endedReason"), Top("end_reason"),
     InMessage("end_reason") >>

SummaryPaths ==
  << InMessage("analysis_summary"), Top("analysis_summary"), Top("summary") >>

TranscriptPaths == << InMessage("transcript"), Top("transcript") >>

DurationPaths ==
  << Top("durationSeconds"), InMessage("durationSeconds"), Top("duration"),
     InMessage("duration") >>

\* The value at a path; a path under message of a payload without message
\* holds nothing.
ValueAt(payload, path) ==
  IF path.inMessage
  THEN (IF payload.hasMessage THEN payload.message[path.key] ELSE JAbsent)
  ELSE payload[path.key]

\* The payload with the value v at a path.
Put(payload, path, v) ==
  IF path.inMessage
  THEN [payload EXCEPT !.hasMessage = TRUE, !.message[path.key] = v]
  ELSE [payload EXCEPT ![path.key] = v]

\* The paths of a field that a payload fills at a time.
MaxFilled == 2

\* What each path of a field holds in a payload: nothing, a value that
\* JavaScript takes for false ("" or 0), or a value proper; at most one path
\* holds a false value.
Assignments(paths) ==
  { a \in [1..Len(paths) -> {"absent", "falsy", "value"}] :
      /\ Cardinality({i \in 1..Len(paths) : a[i] = "falsy"}) <= 1
      /\ Cardinality({i \in 1..Len(paths) : a[i] # "absent"}) <= MaxFilled }

\* The i-th value of a kind of field: ids "01", "02", ... of no row, numbers
\* "8881", "8882", ... that no lead has, durations of 10 i seconds, and texts
\* "x1", "x2", ...
ValueOf(kind, i) ==
  CASE kind = "id" -> JStr(<<"0", DigitChars[i + 1]>>)
    [] kind = "number" -> JStr(<<"8", "8", "8", DigitChars[i + 1]>>)
    [] kind = "duration" -> JNum(10 * i)
    [] kind = "text" -> JStr(<<"x", DigitChars[i + 1]>>)

FalsyOf(kind) == IF kind = "duration" THEN JNum(0) ELSE JStr(<<>>)

\* The payload `base` with the paths filled as the assignment a says, from
\* path i on.
RECURSIVE Fill(_, _, _, _, _)
Fill(base, paths, kind, a, i) ==
  IF i > Len(paths) THEN base
  ELSE Fill(IF a[i] = "absent" THEN base
            ELSE Put(base, paths[i],
                     IF a[i] = "falsy" THEN FalsyOf(kind) ELSE ValueOf(kind, i)),
            paths, kind, a, i + 1)

Filled(base, paths, kind) ==
  {Fill(base, paths, kind, a, 1) : a \in Assignments(paths)}

\* A webhook of lead 1, and a webhook of a number that no lead has.
OfLeadOne == [EmptyPayload EXCEPT !.metadata_contactId = JStr(LeadId(1))]
OfUnknownNumber == [EmptyPayload EXCEPT !.to = ValueOf("number", 9)]

\* The payloads of the extraction: for each field, every assignment of its
\* paths.
ExtractorPayloads ==
  Filled(EmptyPayload, ContactIdPaths, "id")
    \cup Filled(EmptyPayload, PhoneNumberPaths, "number")
    \cup Filled(OfUnknownNumber, CustomerNamePaths, "text")
    \cup Filled(OfLeadOne, EndReasonPaths, "text")
    \cup Filled(OfLeadOne, SummaryPaths, "text")
    \cup Filled(OfLeadOne, TranscriptPaths, "text")
    \cup Filled(OfLeadOne, DurationPaths, "duration")

ExtractorRequests == {Post(payload) : payload \in ExtractorPayloads}

ExtractorInit == TableInit({AnnLee})

ExtractorNext ==
  \E req \in ExtractorRequests : Serve(req, ApiAnswers)

ExtractorSpec == ExtractorInit /\ [][ExtractorNext]_vars

TypeOK ==
  /\ isExecuting \in BOOLEAN
  /\ isCallInProgress \in BOOLEAN
  /\ intervalId \in {0} \cup DOMAIN timers
  /\ BagCardinality(tasks) <= MaxInFlight

\* ------------------------------------------------------------------ claims
\* Number of requests awaiting the provider for lead l in the bag B.
InvokeCount(B, l) ==
  Copies(B, {t \in BagToSet(B) : t.phase = "invoke" /\ t.lead = l})

\* A step of stopExecution called by the user: the toggle while executing, or
\* the function the hook returns.
StopStep == (isExecuting /\ ToggleExecution) \/ StopExecution

Terminal(status) == status \in {"Completed", "Failed"}

\* C1: at every instant at most one call-initiation request to the provider is
\* in flight, whatever the interleaving of ticks and manual calls.
C1_SingleFlight == RequestsInFlight <= 1

\* C2: a lead's status never moves backward: a Completed or Failed lead never
\* becomes In Progress or Pending, an In Progress lead never becomes Pending.
C2_NeverBackward ==
  [][\A l \in Leads :
       /\ Terminal(db[l].status) => db'[l].status \notin {"In Progress", "Pending"}
       /\ db[l].status = "In Progress" => db'[l].status # "Pending"]_vars

\* C3: no call-initiation request is sent for a lead whose status in the table
\* is no longer Pending at the moment of the dispatch.
C3_StaleDispatchRejected ==
  [][\A l \in Leads :
       InvokeCount(tasks', l) > InvokeCount(tasks, l) => db[l].status = "Pending"]_vars

\* C4: a lead has status In Progress, in the table or in the dashboard's copy,
\* only if a call-initiation request for it returned success before.
C4_InProgressOnlyAfterSuccess ==
  \A l \in Leads :
    (db[l].status = "In Progress" \/ leads[l].status = "In Progress")
      => l \in succeeded

C4_Witness == \E l \in Leads : db[l].status = "In Progress" /\ l \in succeeded

\* C5: a run over n eligible leads that terminates on its own has performed
\* exactly n ticks (firings that considered a lead) before the terminating one.
C5_ExactlyNTicks ==
  [][\A h \in DOMAIN timers :
       (h \notin DOMAIN timers' /\ toast' = "Campaign execution completed")
         => timers[h].ticks = Len(timers[h].pendingLeads)]_vars

\* C6: starting a run when no lead of `leads` is Pending with a phone id
\* creates no timer, leaves isExecuting false and every lead unchanged, and
\* reports the no-eligible-leads error.
C6_NoEligibleNoRun ==
  [][(~isExecuting /\ ToggleExecution
      /\ \A l \in Leads : ~(leads[l].status = "Pending" /\ leads[l].phone_id # NULL))
       => /\ timers' = timers
          /\ intervalId' = intervalId
          /\ isExecuting' = FALSE
          /\ db' = db
          /\ leads' = leads
          /\ toast' = "No pending leads with phone IDs available to process"]_vars

C6_Witness ==
  /\ toast = "No pending leads with phone IDs available to process"
  /\ ~isExecuting
  /\ timers = <<>>
  /\ intervalId = 0

\* C7: stopExecution on a running run cancels the run's timer, so that every
\* request sent afterwards, until a new run is started, comes from the Call
\* button and none from a tick; a request already in flight is not aborted: it
\* is still awaiting the provider after the stop.
C7_StopCancelsTimerKeepsRequest ==
  [][/\ (isExecuting /\ StopStep)
         => /\ timers' = <<>>
            /\ intervalId' = 0
            /\ ~isExecuting'
            /\ \A l \in Leads : InvokeCount(tasks', l) = InvokeCount(tasks, l)
     /\ (timers = <<>> /\ RequestsInFlight' > RequestsInFlight)
         => \E l \in Leads : TriggerSingleCall(l)]_vars

C7_Witness ==
  /\ toast = "Stopped execution"
  /\ RequestsInFlight >= 1
  /\ timers = <<>>
  /\ ~isExecuting

\* C8: stopExecution on a run that is already stopped leaves the timer handle,
\* the timers, isExecuting, the in-flight flag and every lead unchanged.
C8_StopIdempotent ==
  [][(~isExecuting /\ StopExecution)
       => /\ intervalId' = intervalId
          /\ timers' = timers
          /\ isExecuting' = isExecuting
          /\ isCallInProgress' = isCallInProgress
          /\ tasks' = tasks
          /\ db' = db
          /\ leads' = leads]_vars

\* No lead has a phone id, so no run was ever started: the stop that showed
\* this toast was applied to a stopped run.
C8_Witness ==
  /\ toast = "Stopped execution"
  /\ \A l \in Leads : db[l].phone_id = NULL
  /\ ~isExecuting

\* C9: while a run is executing, `leads` never shows the finished condition (no
\* Pending lead with a phone id, no In Progress lead, at least one Completed
\* lead): the render that brings it in terminates the run, timer cancelled and
\* isExecuting false, wherever the cursor is.
C9_WatchdogTerminates ==
  (/\ \A l \in Leads : ~(leads[l].status = "Pending" /\ leads[l].phone_id # NULL)
   /\ \A l \in Leads : leads[l].status # "In Progress"
   /\ \E l \in Leads : leads[l].status = "Completed")
    => (~isExecuting /\ timers = <<>> /\ intervalId = 0)

C9_Witness ==
  /\ toast = "Campaign Finished!"
  /\ ~isExecuting
  /\ timers = <<>>
  /\ \E l \in Leads : leads[l].status = "Completed"

\* C10: when the provider's call-initiation returns an error, returns
\* success=false or throws, the table is left as it was: the lead keeps its
\* status and disposition, and a Pending lead stays Pending.
C10_FailureLeavesLead ==
  [][\A t \in InFlight : \A o \in {"error", "throw", "refused"} :
       ProviderResponds(t, o)
         => /\ db' = db
            /\ leads' = leads
            /\ \A l \in Leads :
                 db[l].status = "Pending" => db'[l].status = "Pending"]_vars

C10_Witness ==
  /\ toast = "Failed to initiate call"
  /\ \E l \in Leads : l \in requested /\ l \notin succeeded /\ IsEligible(db[l])

\* C11: when the provider's call-initiation for a lead returns success, the
\* dispatcher goes on to update the row, and the update sets the lead's status
\* to In Progress and its disposition to "Call initiated", leaving the lead's
\* other columns and every other lead as they were.
C11_SuccessMarksInProgress ==
  [][\A t \in BagToSet(tasks) :
       LET u == [t EXCEPT !.phase = "update"] IN
       /\ (t \in InFlight /\ ProviderResponds(t, "success"))
            => /\ CopiesIn(u, tasks') = CopiesIn(u, tasks) + 1
               /\ t.lead \in succeeded'
       /\ (t.phase = "update" /\ LeadUpdateDone(t, TRUE))
            => /\ db'[t.lead].status = "In Progress"
               /\ db'[t.lead].disposition = Disp("Call initiated")
               /\ db'[t.lead].phone_id = db[t.lead].phone_id
               /\ db'[t.lead].duration = db[t.lead].duration
               /\ db'[t.lead].cost = db[t.lead].cost
               /\ \A l \in Leads \ {t.lead} : db'[l] = db[l]]_vars

C11_Witness ==
  /\ toast = "Call initiated successfully"
  /\ \E l \in Leads :
       /\ l \in succeeded
       /\ db[l].status = "In Progress"
       /\ db[l].disposition = Disp("Call initiated")
       /\ db[l].phone_id # NULL

\* C12: no call-initiation request is ever sent for a lead whose phone id is
\* null, whatever its status, by a tick of a run or by the Call button: such a
\* lead is never among the requested leads and never has a request in flight.
C12_NullPhoneNeverDispatched ==
  \A l \in Leads :
    (db[l].phone_id = NULL \/ leads[l].phone_id = NULL)
      => (l \notin requested /\ \A t \in BagToSet(tasks) : t.lead # l)

\* A run was asked for while the only candidates were Pending leads without a
\* phone id: nothing was dispatched.
C12_Witness ==
  /\ toast = "No pending leads with phone IDs available to process"
  /\ \E l \in Leads :
       /\ db[l].status = "Pending"
       /\ db[l].phone_id = NULL
       /\ l \notin requested

\* ------------------------------------------- claims on the webhook function
\* The last request was a POST whose body parsed to an object.
Parsed == request.method = "POST" /\ request.body = "object"

\* C13: every request to the webhook function is answered with HTTP status
\* 200, and every request but a CORS preflight with a body carrying a success
\* flag and a message: success false for a body that is not JSON, for a
\* payload without contact information, for a failed update of the lead and
\* for an error thrown while processing, success true otherwise.
C13_Always200 ==
  request.method # "none"
    => /\ response.status = 200
       /\ request.method # "OPTIONS"
            => /\ response.hasBody
               /\ response.success \in BOOLEAN
               /\ response.message # ""
       /\ request.body \in {"malformed", "null"} => ~response.success
       /\ (Parsed /\ extractDispositionThrows(request.payload))
            => ~response.success
       /\ (Parsed /\ ~Truthy(extractContactId(request.payload))
                  /\ ~Truthy(extractPhoneNumber(request.payload)))
            => ~response.success
       /\ response.message = "Webhook processed successfully"
            => response.success

\* The handler threw (toLowerCase of a numeric end reason) and answered 200.
C13_Witness ==
  /\ request = Post(ThrowingPayload)
  /\ response.status = 200
  /\ response.hasBody
  /\ ~response.success
  /\ response.message = "Failed to process webhook"

\* C14: a webhook delivered a second time (the request the handler served is
\* served again), after its first delivery was processed, for the same lead,
\* which is Completed, leaves every row of the
\* table (status, disposition, duration, cost) and the statistics recomputed
\* from the rows unchanged.
C14_SecondDeliveryIdempotent ==
  [][(/\ request' = request
      /\ response.message = "Webhook processed successfully"
      /\ Truthy(contactId)
      /\ \A l \in rowsWithId(db, contactId) : db[l].status = "Completed"
      /\ contactId' = contactId)
       => /\ db' = db
          /\ updateStats(db') = updateStats(db)]_vars

\* The 90-second call was delivered and processed and its lead is Completed:
\* the state a second delivery of it starts from, and ends in.
C14_Witness ==
  /\ request = Post([CompletedPayload EXCEPT !.metadata_contactId = JStr(LeadId(1))])
  /\ response.message = "Webhook processed successfully"
  /\ db[1].status = "Completed"
  /\ db[1].duration = 90
  /\ updateStats(db).completed = 1
  /\ updateStats(db).totalDuration = 90

\* The rows some step of the matcher accepts for a number (and a name).
MatchedByPhone(number) ==
  exactMatches(contacts, number) \cup lastTenMatches(contacts, number)
    \cup scanMatches(contacts, number)

MatchedByName(name, number) ==
  nameMatches(contacts, name) \cap lastFourMatches(contacts, number)

\* C15: serving a webhook without a correlation id whose number matches no lead by
\* phone, and whose name (if any) and number match no lead by name and last
\* four digits, is acknowledged (status 200, success true when the look-ups
\* answered) and changes no row; a webhook with neither a correlation id nor
\* a phone number is answered with success false and changes no row.
C15_UnresolvedNoChange ==
  [][LET payload == request'.payload
         number == extractPhoneNumber(payload)
         name == extractCustomerName(payload)
     IN (/\ request'.method = "POST" /\ request'.body = "object"
         /\ ~extractDispositionThrows(payload)
         /\ ~Truthy(extractContactId(payload)))
          => /\ (/\ Truthy(number)
                 /\ MatchedByPhone(number.s) = {}
                 /\ Truthy(name) => MatchedByName(name.s, number.s) = {})
                  => /\ db' = db
                     /\ response'.status = 200
                     /\ response'.message # "Failed to process webhook"
                          => response'.success
                     /\ ~Truthy(contactId')
             /\ ~Truthy(number)
                  => /\ db' = db
                     /\ response'.status = 200
                     /\ ~response'.success]_vars

\* A webhook with the number alone was processed and resolved to no lead.
C15_Witness ==
  /\ request = Post([CompletedPayload EXCEPT !.customer_number = JStr(IncomingNumber)])
  /\ ~Truthy(contactId)
  /\ response.message = "Webhook processed successfully"
  /\ \A l \in Rows : db[l].status = "In Progress"
  /\ \A l \in Rows : contacts[l] = AnnLeeSr

\* The step of the matcher that first accepts a stored contact for the
\* incoming number "+1 (555) 010-2222" and the incoming name "ann lee":
\* 1 exact match, 2 last ten digits as a substring, 3 digit-stripped suffix
\* comparison, 4 name plus last four digits, 5 none.
StepOf(contact, withName) ==
  CASE contact = AnnLee -> 1
    [] contact = BobRay -> 2
    [] contact = CyDow -> 3
    [] contact = AnnLeeJr -> IF withName THEN 4 ELSE 5
    [] contact = AnnLeeSr -> 5

\* C18: the lead a webhook without correlation id resolves to is one found
\* by the earliest step of the matcher that finds any (exact phone match,
\* last ten digits as a substring, digit-stripped suffix comparison, name plus
\* last four digits), and none when no step finds one; "+1 (555) 010-2222"
\* resolves to a lead stored as "5550102222" when no lead matches exactly.
C18_EarliestStepWins ==
  (/\ Parsed
   /\ needsLookup(request.payload)
   /\ response.message # "Failed to process webhook")
    => LET withName == Truthy(extractCustomerName(request.payload))
           step(l) == StepOf(contacts[l], withName)
           resolvedRows == rowsWithId(contacts, contactId)
       IN /\ extractPhoneNumber(request.payload).s = IncomingNumber
          /\ IF \A l \in Rows : step(l) = 5
             THEN ~Truthy(contactId)
             ELSE /\ Cardinality(resolvedRows) = 1
                  /\ \A r \in resolvedRows : \A l \in Rows : step(r) <= step(l)
          /\ ((\E l \in Rows : contacts[l] = BobRay)
               /\ (\A l \in Rows : contacts[l] # AnnLee))
               => \A r \in resolvedRows : contacts[r].phone_number = BobRay.phone_number

\* The number resolved to the lead stored as "5550102222" (step 2) while
\* another lead matches by the comparison of cleaned numbers (step 3).
C18_Witness ==
  /\ Parsed
  /\ needsLookup(request.payload)
  /\ response.message = "Webhook processed successfully"
  /\ \E r \in rowsWithId(contacts, contactId) :
       /\ contacts[r] = BobRay
       /\ db[r].status # "In Progress"
       /\ \E l \in Rows \ {r} : contacts[l] = CyDow

\* -------------------------------------------------- claims on the normalizer
\* The last webhook was processed and its outcome written to lead 1.
Normalized ==
  /\ Parsed
  /\ response.message = "Webhook processed successfully"
  /\ contactId = JStr(LeadId(1))

\* C16: the status written for a webhook is Failed exactly when its payload
\* has success false at top level or under message, or a status that is a
\* string containing "fail" in any case; otherwise it is Completed, also when
\* the duration is 0 or absent.
C16_FailedExactlyOnFailureSignal ==
  \A s \in SuccessValues : \A m \in MessageSuccessValues :
    \A st \in FailStatuses \cup OtherStatuses : \A d \in DurationValues :
      (Normalized /\ request.payload = StatusPayload(s, m, st, d))
        => /\ db[1].status
                = IF s = JBool(FALSE) \/ m = "false" \/ st \in FailStatuses
                  THEN "Failed" ELSE "Completed"
           /\ db[1].duration = IF d = JNum(90) THEN 90 ELSE 0

\* A webhook without any failure signal and without duration made the lead
\* Completed.
C16_Witness ==
  /\ Normalized
  /\ request.payload
       = StatusPayload(JBool(TRUE), "absent", JStr(<<"c", "o", "m", "p", "l", "e", "t", "e", "d">>), JNum(0))
  /\ db[1].status = "Completed"
  /\ db[1].duration = 0

\* The label the documented order gives a summary, a transcript and an end
\* reason, from the rules whose phrases they were built with.
ExpectedLabel(case) ==
  LET content == {case.summary.rule, case.transcript.rule}
      reason == case.endedReason.rule
  IN IF "Answering Machine" \in content \/ reason = "Answering Machine"
     THEN "Answering Machine"
     ELSE IF reason = "No Answer" THEN "No Answer"
     ELSE IF reason = "Warm Transfer"
          THEN (IF "Education" \in content THEN "Warm Transfer - Education"
                ELSE IF "Job" \in content THEN "Warm Transfer - Job"
                ELSE "Warm Transfer")
     ELSE IF "Do Not Contact" \in content THEN "Do Not Contact"
     ELSE IF "Language Barrier" \in content THEN "Language Barrier"
     ELSE IF "Not Qualified" \in content THEN "Not Qualified"
     ELSE IF "Not Interested" \in content THEN "Not Interested"
     ELSE IF reason = "Hang Up" THEN "Hang Up"
     ELSE IF reason = "Other" THEN "Other"
     ELSE "Unknown"

Labels ==
  {"Answering Machine", "No Answer", "Warm Transfer - Education",
   "Warm Transfer - Job", "Warm Transfer", "Do Not Contact",
   "Language Barrier", "Not Qualified", "Not Interested", "Hang Up", "Other",
   "Unknown"}

\* The classifier's inputs with the payload and the label expected of each.
ExpectedDispositions ==
  { [payload |-> ContentPayload(c.summary, c.transcript, c.endedReason),
     label |-> ExpectedLabel(c),
     detail |-> IF ExpectedLabel(c) = "Other" THEN c.endedReason.value.s
                ELSE <<>>] : c \in ContentCases }

\* C17: the disposition written for a webhook is the label of the first rule,
\* in the order Answering Machine, No Answer, Warm Transfer (Education, Job,
\* generic), Do Not Contact, Language Barrier, Not Qualified, Not Interested,
\* Hang Up, Other: <end reason>, Unknown, that its content and end reason
\* match; it is always one label of that set, and content with "leave a
\* message" gives Answering Machine whatever else is present.
C17_FirstRuleWins ==
  Normalized
    => /\ db[1].disposition.label \in Labels
       /\ \A e \in ExpectedDispositions :
            request.payload = e.payload
              => /\ db[1].disposition.label = e.label
                 /\ db[1].disposition.detail = e.detail
       /\ (/\ Truthy(request.payload.summary)
           /\ includes(toLowerCase(request.payload.summary.s),
                       <<"l", "e", "a", "v", "e", " ", "a", " ", "m", "e", "s", "s", "a", "g", "e">>))
            => db[1].disposition = Disp("Answering Machine")

\* "Please Leave a Message" in the summary, "stop calling" in the transcript
\* and the end reason customer-did-not-answer gave Answering Machine.
C17_Witness ==
  /\ Normalized
  /\ request.payload.summary = JStr(<<"P", "l", "e", "a", "s", "e", " ", "L", "e", "a", "v", "e", " ", "a", " ", "M", "e", "s", "s", "a", "g", "e">>)
  /\ request.payload.transcript = JStr(<<"s", "t", "o", "p", " ", "c", "a", "l", "l", "i", "n", "g">>)
  /\ request.payload.endedReason = JStr(<<"c", "u", "s", "t", "o", "m", "e", "r", "-", "d", "i", "d", "-", "n", "o", "t", "-", "a", "n", "s", "w", "e", "r">>)
  /\ db[1].disposition = Disp("Answering Machine")

C20_TerminatingTickCancelsTimer ==
  [][\A h \in DOMAIN timers :
       (AtEnd(h) /\ Dashboard_Tick(h))
         => /\ ~isExecuting'
            /\ h \notin DOMAIN timers']_vars

\* ------------------------------------------- claims on the hook's cursor
\* C21: the cursor advances by exactly one lead per tick: the k-th tick of a
\* run considers the k-th lead of its snapshot, that is, a tick that considers
\* a lead finds the cursor at the number of ticks that considered a lead
\* before it, whether those dispatched, failed or are still awaiting the
\* provider.
C21_KthTickKthLead ==
  [][\A h \in DOMAIN timers :
       (~AtEnd(h) /\ Tick(h))
         => timers[h].currentIndex = timers[h].ticks]_vars

\* C22: a tick that fires while a call-initiation request is in flight sends
\* no request to the provider, and the cursor advances past the tick's lead.
C22_InFlightTickSkips ==
  [][\A h \in DOMAIN timers :
       (~AtEnd(h) /\ RequestsInFlight >= 1 /\ Tick(h))
         => /\ RequestsInFlight' = RequestsInFlight
            /\ timers'[h].currentIndex = timers[h].currentIndex + 1]_vars

\* C23: within one run no lead of the snapshot is handed to the dispatcher
\* more than once: a tick of a run sends no request for a lead for which a
\* call of the same run is still under way (the cursor only moves on when
\* that call has returned, so a second hand-over can only happen meanwhile).
C23_AtMostOncePerRun ==
  [][\A h \in DOMAIN timers : \A l \in Leads :
       (/\ ~AtEnd(h)
        /\ Tick(h)
        /\ InvokeCount(tasks', l) > InvokeCount(tasks, l))
         => \A t \in BagToSet(tasks) : ~(t.run = h /\ t.lead = l)]_vars

\* ----------------------------------------- claim on the terminal statuses
\* C27: a lead's status becomes Completed or Failed only by the update of the
\* webhook function, so by no step of the dispatcher or of the scheduler; a
\* lead that is Completed or Failed and for which no call was ever requested
\* was created Failed, without a phone id.
C27_TerminalOnlyByWebhook ==
  [][/\ \A l \in Leads :
          (db'[l].status # db[l].status /\ Terminal(db'[l].status))
            => \E o \in WebhookOutcomes : Webhook(l, o)
     /\ \A l \in Leads :
          (Terminal(db[l].status) /\ l \notin requested)
            => db[l] = NewLead(FALSE)]_vars

\* A lead with a phone id whose call was requested and that a webhook made
\* Failed.
C27_Witness ==
  \E l \in Leads :
    /\ l \in requested
    /\ db[l].phone_id # NULL
    /\ db[l].status = "Failed"

\* ------------------------------------------- claims on the hook's run
\* C28: at most one pacing run is active at any time: there is at most one
\* live interval timer, and a step that starts a run (creates a timer) is
\* taken only when no run is executing and no timer is live.
C28_SingleRun ==
  [][/\ Cardinality(DOMAIN timers) <= 1
     /\ Cardinality(DOMAIN timers') <= 1
     /\ (\E h \in DOMAIN timers' : h \notin DOMAIN timers)
          => (~isExecuting /\ timers = <<>> /\ ToggleExecution)]_vars

\* A second run, started after the first was stopped with a request still
\* awaiting the provider: one timer is live.
C28_Witness ==
  /\ isExecuting
  /\ Cardinality(DOMAIN timers) = 1
  /\ \E t \in BagToSet(tasks) : t.run = 0 /\ t.phase = "invoke"
  /\ toast = "Started processing"

\* C29: isExecuting is true exactly when a live interval timer exists, and
\* then intervalId holds its handle; when no run is executing intervalId is
\* null.
C29_ExecutingIffTimer ==
  /\ isExecuting <=> timers # <<>>
  /\ isExecuting => DOMAIN timers = {intervalId}
  /\ ~isExecuting => intervalId = 0

\* A run is executing with its timer live and its handle in intervalId.
C29_Witness ==
  /\ isExecuting
  /\ intervalId # 0
  /\ DOMAIN timers = {intervalId}
  /\ timers[intervalId].currentIndex = 1

C30_TerminalStaysTerminal ==
  [][\A l \in Leads :
       (l \in succeeded /\ Terminal(db[l].status))
         => Terminal(db'[l].status)]_vars

\* The value at the first of the paths that holds a value JavaScript takes
\* for true; absent when none does.
RECURSIVE FirstTruthy(_, _)
FirstTruthy(payload, paths) ==
  IF paths = <<>> THEN JAbsent
  ELSE IF Truthy(ValueAt(payload, Head(paths)))
       THEN ValueAt(payload, Head(paths))
       ELSE FirstTruthy(payload, Tail(paths))

\* The value at the first of the paths that is present in the payload,
\* whatever it holds; absent when none is.
RECURSIVE FirstPresent(_, _)
FirstPresent(payload, paths) ==
  IF paths = <<>> THEN JAbsent
  ELSE IF ValueAt(payload, Head(paths)) # JAbsent
       THEN ValueAt(payload, Head(paths))
       ELSE FirstPresent(payload, Tail(paths))

\* The seven fields the code extracts from a payload, and what a rule of
\* choice `first` gives for them.
Extracted(payload) ==
  [ contactId |-> extractContactId(payload),
    phoneNumber |-> extractPhoneNumber(payload),
    customerName |-> extractCustomerName(payload),
    endReason |-> extractEndReason(payload),
    summary |-> extractSummary(payload),
    transcript |-> extractTranscript(payload),
    duration |-> extractDuration(payload) ]

ByRule(first(_, _), payload) ==
  [ contactId |-> first(payload, ContactIdPaths),
    phoneNumber |-> first(payload, PhoneNumberPaths),
    customerName |-> first(payload, CustomerNamePaths),
    endReason |-> first(payload, EndReasonPaths),
    summary |-> first(payload, SummaryPaths),
    transcript |-> first(payload, TranscriptPaths),
    duration |-> first(payload, DurationPaths).n ]

\* The webhook of lead 1 was processed and its row updated.
LeadOneUpdated ==
  /\ Parsed
  /\ response.message = "Webhook processed successfully"
  /\ contactId = JStr(LeadId(1))

\* C26 as stated: each extracted field (correlation id, phone number, customer
\* name, end reason, summary, transcript, duration) is the value at the first
\* of its candidate paths that is present in the payload, a later path being
\* used only when every earlier one is absent, and null (0 for the duration)
\* when none is present; the correlation id the function works with and the
\* duration it writes to the lead are those values.
C26_FirstPresentPathWins ==
  Parsed =>
    /\ Extracted(request.payload) = ByRule(FirstPresent, request.payload)
    /\ Truthy(FirstPresent(request.payload, ContactIdPaths))
         => contactId = FirstPresent(request.payload, ContactIdPaths)
    /\ LeadOneUpdated
         => db[1].duration = FirstPresent(request.payload, DurationPaths).n

\* C26 as the code has it: each extracted field is the value at the first of
\* its candidate paths whose value JavaScript takes for true (a path holding
\* "", 0, null or false is passed over like an absent one), and null (0 for
\* the duration) when no path holds such a value; the correlation id the
\* function works with and the duration it writes to the lead are those
\* values.
C26_FirstTruthyPathWins ==
  Parsed =>
    /\ Extracted(request.payload) = ByRule(FirstTruthy, request.payload)
    /\ Truthy(FirstTruthy(request.payload, ContactIdPaths))
         => contactId = FirstTruthy(request.payload, ContactIdPaths)
    /\ LeadOneUpdated
         => db[1].duration = FirstTruthy(request.payload, DurationPaths).n

\* A webhook of lead 1 with durationSeconds 0 and message.durationSeconds 20
\* wrote a duration of 20 seconds.
C26_Witness ==
  /\ LeadOneUpdated
  /\ request.payload.durationSeconds = JNum(0)
  /\ request.payload.hasMessage
  /\ request.payload.message.durationSeconds = JNum(20)
  /\ db[1].duration = 20

====
